---- MODULE Spec2Model ----
(***************************************************************************)
(* Polymarket alert bot: trade dedup, wallet statistics, market baselines, *)
(* anomaly scoring and the alert cooldown ledger.                          *)
(*                                                                         *)
(* Conventions.  Time is counted in whole hours; `now' is the UTC wall     *)
(* clock and `tz' the offset of the host's local zone.  A timestamp        *)
(* string is the triple <<date, separator, hour>> compared the way SQLite  *)
(* compares TEXT (left to right): the date digits, then the separator      *)
(* character code (32 for ' ', 84 for 'T'), then the time digits.  USD     *)
(* sizes are integers and an average is the exact fraction [num, den].     *)
(* A wallet address is a sequence of characters.                           *)
(***************************************************************************)
EXTENDS Integers, Sequences, FiniteSets, TLC

VARIABLES
    trades,            \* table trades: transaction_hash -> row
    wallets,           \* table wallets: address -> row
    market_baselines,  \* table market_baselines: condition_id -> row
    alerts,            \* table alerts, rows in AUTOINCREMENT order
    trades_processed,  \* PolymarketAlertBot.trades_processed
    alerts_sent,       \* PolymarketAlertBot.alerts_sent
    now,               \* UTC wall clock, hours
    tz,                \* local zone offset, hours
    config,            \* AnomalyAnalyzer / bot settings
    calls,             \* collaborator calls of the latest process_trade
    probe,             \* arguments handed to a direct analyze call
    candidate,         \* AlertCandidate returned by that call
    total_changes,     \* sqlite connection: rows changed since connect
    returned,          \* what the latest direct record_trade call returned
    delivered,         \* alerts the chats received, per transaction_hash
    batch,             \* trades fetched by the running poll_cycle
    cursor,            \* position of poll_cycle in batch, 0 between cycles
    outcome,           \* how the latest poll_cycle ended
    tasks              \* engine instances working on one database

vars == <<trades, wallets, market_baselines, alerts, trades_processed,
          alerts_sent, now, tz, config, calls, probe, candidate,
          total_changes, returned, delivered, batch, cursor, outcome, tasks>>

----------------------------------------------------------------------------
(* Bounds of the model *)

MaxHash == 2
MaxTime == 30
MaxAlerts == 2
MaxLedgerTime == 34
MaxSample == 30
MaxStoreOps == 3
MaxProbeWait == 1

\* the writes made and the trades scored up to which a store call may fail
MaxRetries == 2

(* Program constant: the baseline refresh cadence *)
RefreshEvery == 100

----------------------------------------------------------------------------
(* Input universes *)

Hashes == 1..MaxHash
Addresses == {<<"A">>, <<"a">>, <<"b">>}
Markets == {"m1", "m2"}
Sizes == {400, 2000, 10000}
StartTimes == {27}
TickSteps == {3}
TzOffsets == {-3, 0}

None == [is_none |-> TRUE]

\* models.Trade (market_question, market_slug, outcome play no part in the core)
Trades ==
    [transaction_hash : Hashes, market_id : Markets, wallet_address : Addresses,
     side : {"BUY"}, size : Sizes, price : {50}, timestamp : {5}]

----------------------------------------------------------------------------
(* Strings, clocks and numbers *)

\* str.lower() on one character of an address
LowerChar(c) ==
    CASE c = "A" -> "a" [] c = "B" -> "b" [] c = "C" -> "c"
      [] c = "D" -> "d" [] c = "E" -> "e" [] c = "F" -> "f"
      [] OTHER -> c

\* str.lower()
Lower(s) == [i \in 1..Len(s) |-> LowerChar(s[i])]

\* datetime.now(): naive local time
LocalNow == now + tz

\* datetime.isoformat(): 'YYYY-MM-DDTHH:MM:SS.ffffff'
isoformat(t) == <<t \div 24, 84, t % 24>>

\* datetime.fromisoformat()
fromisoformat(s) == s[1] * 24 + s[3]

\* SQLite CURRENT_TIMESTAMP: 'YYYY-MM-DD HH:MM:SS' in UTC
CURRENT_TIMESTAMP == <<now \div 24, 32, now % 24>>

\* SQLite TEXT comparison a > b (BINARY collation)
TextGreater(a, b) ==
    \/ a[1] > b[1]
    \/ a[1] = b[1] /\ a[2] > b[2]
    \/ a[1] = b[1] /\ a[2] = b[2] /\ a[3] > b[3]

\* timedelta.days
days(delta) == delta \div 24

Rat(n, d) == [num |-> n, den |-> d]

Range(s) == {s[i] : i \in DOMAIN s}

----------------------------------------------------------------------------
(* Configuration *)

DefaultConfig ==
    [fresh_wallet_max_trades |-> 5, fresh_wallet_max_days |-> 30,
     min_size_usd |-> 2000, market_percentile |-> 95,
     wallet_size_multiplier |-> 5, concentration_threshold_pct |-> 10,
     fresh_wallet_points |-> 2, large_size_points |-> 2,
     market_anomaly_points |-> 2, wallet_shift_points |-> 3,
     concentration_points |-> 3, alert_threshold |-> 5,
     cooldown_hours |-> 6]

\* config.yaml as the bot may be deployed: the defaults, or a lower threshold
Configs == {DefaultConfig, [DefaultConfig EXCEPT !.alert_threshold = 4]}

----------------------------------------------------------------------------
(* storage/database.py *)

\* Database.get_wallet_stats
get_wallet_stats(address) ==
    LET a == Lower(address) IN
    IF a \in DOMAIN wallets
    THEN LET row == wallets[a] IN
         [address |-> a,
          total_trades |-> row.total_trades,
          first_seen |-> fromisoformat(row.first_seen),
          last_seen |-> fromisoformat(row.last_seen),
          total_volume |-> row.total_volume,
          avg_trade_size |-> row.avg_trade_size]
    ELSE None

\* update_wallet_stats overwriting the volume instead of adding to it
update_wallet_stats_overwrite(trade) ==
    LET address == Lower(trade.wallet_address)
        now_iso == isoformat(LocalNow)
        stats == get_wallet_stats(address)
    IN  IF stats # None
        THEN [wallets EXCEPT ![address] =
                 [@ EXCEPT !.total_trades = stats.total_trades + 1,
                           !.last_seen = now_iso,
                           !.total_volume = trade.size,
                           !.avg_trade_size = Rat(trade.size, stats.total_trades + 1)]]
        ELSE wallets @@ (address :>
                 [total_trades |-> 1, first_seen |-> now_iso,
                  last_seen |-> now_iso, total_volume |-> trade.size,
                  avg_trade_size |-> Rat(trade.size, 1)])

\* update_wallet_stats dividing the volume before the trade by the new count
update_wallet_stats_stale_avg(trade) ==
    LET address == Lower(trade.wallet_address)
        now_iso == isoformat(LocalNow)
        stats == get_wallet_stats(address)
    IN  IF stats # None
        THEN [wallets EXCEPT ![address] =
                 [@ EXCEPT !.total_trades = stats.total_trades + 1,
                           !.last_seen = now_iso,
                           !.total_volume = stats.total_volume + trade.size,
                           !.avg_trade_size =
                               Rat(stats.total_volume, stats.total_trades + 1)]]
        ELSE wallets @@ (address :>
                 [total_trades |-> 1, first_seen |-> now_iso,
                  last_seen |-> now_iso, total_volume |-> trade.size,
                  avg_trade_size |-> Rat(trade.size, 1)])

\* update_wallet_stats stamping last_seen with the trade's own timestamp
update_wallet_stats_trade_time(trade) ==
    LET address == Lower(trade.wallet_address)
        now_iso == isoformat(LocalNow)
        stats == get_wallet_stats(address)
    IN  IF stats # None
        THEN [wallets EXCEPT ![address] =
                 [@ EXCEPT !.total_trades = stats.total_trades + 1,
                           !.last_seen = isoformat(trade.timestamp),
                           !.total_volume = stats.total_volume + trade.size,
                           !.avg_trade_size =
                               Rat(stats.total_volume + trade.size,
                                   stats.total_trades + 1)]]
        ELSE wallets @@ (address :>
                 [total_trades |-> 1, first_seen |-> now_iso,
                  last_seen |-> isoformat(trade.timestamp),
                  total_volume |-> trade.size,
                  avg_trade_size |-> Rat(trade.size, 1)])

\* Database.update_wallet_stats: the wallets table after the call
update_wallet_stats(trade) ==
    LET address == Lower(trade.wallet_address)
        now_iso == isoformat(LocalNow)
        stats == get_wallet_stats(address)
    IN  IF stats # None
        THEN LET new_total_trades == stats.total_trades + 1
                 new_total_volume == stats.total_volume + trade.size
                 new_avg == Rat(new_total_volume, new_total_trades)
             IN  [wallets EXCEPT ![address] =
                     [@ EXCEPT !.total_trades = new_total_trades,
                               !.last_seen = now_iso,
                               !.total_volume = new_total_volume,
                               !.avg_trade_size = new_avg]]
        ELSE wallets @@ (address :>
                 [total_trades |-> 1, first_seen |-> now_iso,
                  last_seen |-> now_iso, total_volume |-> trade.size,
                  avg_trade_size |-> Rat(trade.size, 1)])

\* record_trade inserting nothing
record_trade_nothing(trade) == trades

\* Database.record_trade: the trades table after INSERT OR IGNORE
record_trade(trade) ==
    IF trade.transaction_hash \in DOMAIN trades
    THEN trades
    ELSE trades @@ (trade.transaction_hash :>
             [market_id |-> trade.market_id,
              wallet_address |-> Lower(trade.wallet_address),
              side |-> trade.side, size |-> trade.size,
              price |-> trade.price,
              timestamp |-> isoformat(trade.timestamp)])

\* Database.record_trade: rows the INSERT OR IGNORE changes
record_trade_changes(trade) ==
    IF trade.transaction_hash \in DOMAIN trades THEN 0 ELSE 1

\* Database.record_trade: the value returned, "self._conn.total_changes > 0"
\* read after the insert
record_trade_returns(trade) == total_changes + record_trade_changes(trade) > 0

\* is_trade_processed that never finds the row
is_trade_processed_never(transaction_hash) == FALSE

\* Database.is_trade_processed
is_trade_processed(transaction_hash) == transaction_hash \in DOMAIN trades

\* Database.get_market_baseline
get_market_baseline(condition_id) ==
    IF condition_id \in DOMAIN market_baselines
    THEN LET row == market_baselines[condition_id] IN
         [condition_id |-> condition_id,
          trade_count |-> row.trade_count,
          total_volume |-> row.total_volume,
          avg_trade_size |-> row.avg_trade_size,
          median_trade_size |-> row.median_trade_size,
          p90_trade_size |-> row.p90_trade_size,
          p95_trade_size |-> row.p95_trade_size,
          last_updated |-> fromisoformat(row.last_updated)]
    ELSE None

\* SELECT size FROM trades WHERE market_id = ? ORDER BY size
SortedSizes(tr, hs) ==
    LET values == {tr[h].size : h \in hs}
        below == [v \in values |-> Cardinality({h \in hs : tr[h].size < v})]
        upto == [v \in values |-> Cardinality({h \in hs : tr[h].size <= v})]
    IN  [k \in 1..Cardinality(hs) |->
            CHOOSE v \in values : below[v] < k /\ k <= upto[v]]

RECURSIVE SumSeq(_)
SumSeq(s) ==
    IF Len(s) = 0 THEN 0
    ELSE IF Len(s) = 1 THEN s[1]
    ELSE LET half == Len(s) \div 2
         IN  SumSeq(SubSeq(s, 1, half)) + SumSeq(SubSeq(s, half + 1, Len(s)))

\* the statistics with p90 clamped to the maximum up to n = 11
baseline_row_clamp_late(sizes) ==
    LET n == Len(sizes)
        total == SumSeq(sizes)
    IN  [trade_count |-> n, total_volume |-> total,
         avg_trade_size |-> Rat(total, n),
         median_trade_size |-> sizes[(n \div 2) + 1],
         p90_trade_size |-> IF n > 11 THEN sizes[((n * 90) \div 100) + 1]
                            ELSE sizes[n],
         p95_trade_size |-> IF n > 20 THEN sizes[((n * 95) \div 100) + 1]
                            ELSE sizes[n],
         last_updated |-> isoformat(LocalNow)]

\* Database.update_market_baseline, the statistics of a non-empty ascending
\* list of sizes: n // 2, int(n * 0.90), int(n * 0.95) and sizes[-1]
baseline_row(sizes) ==
    LET n == Len(sizes)
        total == SumSeq(sizes)
        avg == Rat(total, n)
        median == sizes[(n \div 2) + 1]
        p90 == IF n > 10 THEN sizes[((n * 90) \div 100) + 1] ELSE sizes[n]
        p95 == IF n > 20 THEN sizes[((n * 95) \div 100) + 1] ELSE sizes[n]
    IN  [trade_count |-> n, total_volume |-> total,
         avg_trade_size |-> avg, median_trade_size |-> median,
         p90_trade_size |-> p90, p95_trade_size |-> p95,
         last_updated |-> isoformat(LocalNow)]

\* update_market_baseline adding the new counts to the stored row
update_market_baseline_merge(tr, condition_id) ==
    LET sizes == SortedSizes(tr, {h \in DOMAIN tr : tr[h].market_id = condition_id})
    IN  IF Len(sizes) = 0
        THEN market_baselines
        ELSE IF condition_id \in DOMAIN market_baselines
        THEN [market_baselines EXCEPT ![condition_id] =
                 [baseline_row(sizes) EXCEPT
                     !.trade_count = @ + market_baselines[condition_id].trade_count,
                     !.total_volume = @ + market_baselines[condition_id].total_volume]]
        ELSE market_baselines @@ (condition_id :> baseline_row(sizes))

\* update_market_baseline storing a zero-valued row for a market without trades
update_market_baseline_zero_row(tr, condition_id) ==
    LET sizes == SortedSizes(tr, {h \in DOMAIN tr : tr[h].market_id = condition_id})
    IN  [c \in DOMAIN market_baselines \cup {condition_id} |->
            IF c # condition_id THEN market_baselines[c]
            ELSE IF Len(sizes) = 0
            THEN [trade_count |-> 0, total_volume |-> 0,
                  avg_trade_size |-> Rat(0, 1), median_trade_size |-> 0,
                  p90_trade_size |-> 0, p95_trade_size |-> 0,
                  last_updated |-> isoformat(LocalNow)]
            ELSE baseline_row(sizes)]

\* Database.update_market_baseline over trades table tr: the
\* market_baselines table after the call
update_market_baseline(tr, condition_id) ==
    LET sizes == SortedSizes(tr, {h \in DOMAIN tr : tr[h].market_id = condition_id})
    IN  IF Len(sizes) = 0
        THEN market_baselines
        ELSE [c \in DOMAIN market_baselines \cup {condition_id} |->
                 IF c = condition_id THEN baseline_row(sizes)
                 ELSE market_baselines[c]]

\* should_alert looking at the wallet alone
db_should_alert_any_market(wallet, market_id, cooldown_hours) ==
    LET cutoff == isoformat(LocalNow - cooldown_hours) IN
    ~ \E i \in DOMAIN alerts :
          /\ alerts[i].wallet_address = Lower(wallet)
          /\ TextGreater(alerts[i].created_at, cutoff)

\* Database.should_alert
db_should_alert(wallet, market_id, cooldown_hours) ==
    LET cutoff == isoformat(LocalNow - cooldown_hours) IN
    ~ \E i \in DOMAIN alerts :
          /\ alerts[i].wallet_address = Lower(wallet)
          /\ alerts[i].market_id = market_id
          /\ TextGreater(alerts[i].created_at, cutoff)

\* record_alert losing the row
record_alert_nothing(wallet, market_id, side, score, triggers) == alerts

\* Database.record_alert: the alerts table after the INSERT
record_alert(wallet, market_id, side, score, triggers) ==
    Append(alerts,
           [wallet_address |-> Lower(wallet), market_id |-> market_id,
            side |-> side, score |-> score, triggers |-> triggers,
            created_at |-> CURRENT_TIMESTAMP])

----------------------------------------------------------------------------
(* detection/analyzer.py *)

\* _is_fresh_wallet comparing the trade count with < instead of <=
is_fresh_wallet_below(wallet_stats) ==
    IF wallet_stats = None THEN TRUE
    ELSE IF wallet_stats.total_trades < config.fresh_wallet_max_trades THEN TRUE
    ELSE days(LocalNow - wallet_stats.first_seen) <= config.fresh_wallet_max_days

\* _is_fresh_wallet taking an unknown wallet for an old one
is_fresh_wallet_known_only(wallet_stats) ==
    IF wallet_stats = None THEN FALSE
    ELSE IF wallet_stats.total_trades <= config.fresh_wallet_max_trades THEN TRUE
    ELSE days(LocalNow - wallet_stats.first_seen) <= config.fresh_wallet_max_days

\* AnomalyAnalyzer._is_fresh_wallet
is_fresh_wallet(wallet_stats) ==
    IF wallet_stats = None THEN TRUE
    ELSE IF wallet_stats.total_trades <= config.fresh_wallet_max_trades THEN TRUE
    ELSE LET days_old == days(LocalNow - wallet_stats.first_seen) IN
         IF days_old <= config.fresh_wallet_max_days THEN TRUE ELSE FALSE

\* AnomalyAnalyzer._is_large_absolute_size
is_large_absolute_size(trade) == trade.size >= config.min_size_usd

\* _is_market_anomaly reading p95 whatever market_percentile says
is_market_anomaly_p95_only(trade, baseline) ==
    IF baseline = None THEN FALSE
    ELSE trade.size >= baseline.p95_trade_size /\ baseline.p95_trade_size > 0

\* AnomalyAnalyzer._is_market_anomaly
is_market_anomaly(trade, baseline) ==
    IF baseline = None THEN FALSE
    ELSE LET threshold == IF config.market_percentile = 95
                          THEN baseline.p95_trade_size
                          ELSE baseline.p90_trade_size
         IN  trade.size >= threshold /\ threshold > 0

\* _is_wallet_shift without the "avg_trade_size <= 0" return
is_wallet_shift_unguarded(trade, wallet_stats) ==
    IF wallet_stats = None THEN FALSE
    ELSE trade.size * wallet_stats.avg_trade_size.den
             >= config.wallet_size_multiplier * wallet_stats.avg_trade_size.num

\* AnomalyAnalyzer._is_wallet_shift; size / avg >= m over exact fractions
is_wallet_shift(trade, wallet_stats) ==
    IF wallet_stats = None THEN FALSE
    ELSE IF wallet_stats.avg_trade_size.num <= 0 THEN FALSE
    ELSE trade.size * wallet_stats.avg_trade_size.den
             >= config.wallet_size_multiplier * wallet_stats.avg_trade_size.num

\* the denominators of the divisions by avg_trade_size that analyze and
\* _is_wallet_shift evaluate for a trade
wallet_shift_divisors(trade, wallet_stats) ==
    IF wallet_stats = None THEN {}
    ELSE IF wallet_stats.avg_trade_size.num <= 0 THEN {}
    ELSE {wallet_stats.avg_trade_size}

\* _is_high_concentration comparing the fraction, not the percentage
is_high_concentration_fraction(trade, baseline) ==
    IF baseline = None THEN FALSE
    ELSE IF baseline.total_volume <= 0 THEN FALSE
    ELSE trade.size >= config.concentration_threshold_pct * baseline.total_volume

\* _is_high_concentration without the "total_volume <= 0" return
is_high_concentration_unguarded(trade, baseline) ==
    IF baseline = None THEN FALSE
    ELSE trade.size * 100 >= config.concentration_threshold_pct * baseline.total_volume

\* AnomalyAnalyzer._is_high_concentration; (size / total_volume) * 100 >= pct
is_high_concentration(trade, baseline) ==
    IF baseline = None THEN FALSE
    ELSE IF baseline.total_volume <= 0 THEN FALSE
    ELSE trade.size * 100 >= config.concentration_threshold_pct * baseline.total_volume

\* the denominators of the divisions by total_volume that
\* _is_high_concentration evaluates for a trade
concentration_divisors(trade, baseline) ==
    IF baseline = None \/ baseline.total_volume <= 0 THEN {}
    ELSE {baseline.total_volume}

\* the step with "score = points" in place of "score += points"
Bump_assign(acc, fired, points, label) ==
    IF fired
    THEN [score |-> points, triggers |-> Append(acc.triggers, label)]
    ELSE acc

\* one "if trigger: score += points; triggers.append(label)" step of analyze
Bump(acc, fired, points, label) ==
    IF fired
    THEN [score |-> acc.score + points, triggers |-> Append(acc.triggers, label)]
    ELSE acc

\* analyze looking the wallet up in the store instead of using its argument
analyze_from_store(trade, wallet_stats, market_baseline) ==
    LET stored == get_wallet_stats(trade.wallet_address)
        a0 == [score |-> 0, triggers |-> <<>>]
        a1 == Bump(a0, is_fresh_wallet(stored),
                   config.fresh_wallet_points, "Fresh wallet")
        a2 == Bump(a1, is_large_absolute_size(trade),
                   config.large_size_points, "Large size")
        a3 == Bump(a2, is_market_anomaly(trade, market_baseline),
                   config.market_anomaly_points, "Market anomaly")
        a4 == Bump(a3, is_wallet_shift(trade, stored),
                   config.wallet_shift_points, "Behavior shift")
        a5 == Bump(a4, is_high_concentration(trade, market_baseline),
                   config.concentration_points, "High concentration")
    IN  [trade |-> trade, wallet_stats |-> wallet_stats,
         market_baseline |-> market_baseline,
         score |-> a5.score, triggers |-> a5.triggers]

\* AnomalyAnalyzer.analyze
analyze(trade, wallet_stats, market_baseline) ==
    LET a0 == [score |-> 0, triggers |-> <<>>]
        a1 == Bump(a0, is_fresh_wallet(wallet_stats),
                   config.fresh_wallet_points, "Fresh wallet")
        a2 == Bump(a1, is_large_absolute_size(trade),
                   config.large_size_points, "Large size")
        a3 == Bump(a2, is_market_anomaly(trade, market_baseline),
                   config.market_anomaly_points, "Market anomaly")
        a4 == Bump(a3, is_wallet_shift(trade, wallet_stats),
                   config.wallet_shift_points, "Behavior shift")
        a5 == Bump(a4, is_high_concentration(trade, market_baseline),
                   config.concentration_points, "High concentration")
    IN  [trade |-> trade, wallet_stats |-> wallet_stats,
         market_baseline |-> market_baseline,
         score |-> a5.score, triggers |-> a5.triggers]

\* should_alert with a strict comparison
should_alert_strict(cand) == cand.score > config.alert_threshold

\* AnomalyAnalyzer.should_alert
should_alert(cand) == cand.score >= config.alert_threshold

----------------------------------------------------------------------------
(* main.py *)

\* one entry of the call log: the collaborator method and its arguments
Call(op, arg) == [op |-> op, arg |-> arg]

\* TelegramNotifier._send_to_all reaching a chat: one more alert received
\* for the trade
Deliver(transaction_hash) ==
    IF transaction_hash \in DOMAIN delivered
    THEN [delivered EXCEPT ![transaction_hash] = @ + 1]
    ELSE delivered @@ (transaction_hash :> 1)

\* process_trade giving up on the trade when send_alert fails
process_trade_abort_on_failure(trade, success) ==
    LET c_dedup == Call("is_trade_processed",
                        [transaction_hash |-> trade.transaction_hash])
        c_record == <<Call("record_trade", trade), Call("update_wallet_stats", trade)>>
    IN
    IF is_trade_processed(trade.transaction_hash)
    THEN /\ calls' = <<c_dedup>>
         /\ UNCHANGED <<trades, wallets, market_baselines, alerts,
                        trades_processed, alerts_sent, total_changes, delivered>>
    ELSE IF trade.size < config.min_size_usd
    THEN /\ trades' = record_trade(trade)
         /\ wallets' = update_wallet_stats(trade)
         /\ calls' = <<c_dedup>> \o c_record
         /\ total_changes' = total_changes + 2
         /\ UNCHANGED <<market_baselines, alerts, trades_processed, alerts_sent,
                        delivered>>
    ELSE LET cand == analyze(trade, get_wallet_stats(trade.wallet_address),
                             get_market_baseline(trade.market_id))
             over == should_alert(cand)
             gate == over /\ db_should_alert(trade.wallet_address, trade.market_id,
                                             config.cooldown_hours)
             sent == gate /\ success
             failed == gate /\ ~success
             pair == [wallet |-> trade.wallet_address, market_id |-> trade.market_id]
             verdict == [score |-> cand.score, triggers |-> cand.triggers]
         IN  /\ trades_processed' = trades_processed + 1
             /\ alerts_sent' = IF sent THEN alerts_sent + 1 ELSE alerts_sent
             /\ alerts' = IF sent
                          THEN record_alert(trade.wallet_address, trade.market_id,
                                            trade.side, cand.score, cand.triggers)
                          ELSE alerts
             /\ trades' = IF failed THEN trades ELSE record_trade(trade)
             /\ wallets' = IF failed THEN wallets ELSE update_wallet_stats(trade)
             /\ market_baselines' = market_baselines
             /\ delivered' = IF sent THEN Deliver(trade.transaction_hash)
                             ELSE delivered
             /\ total_changes' = total_changes + (IF failed THEN 0 ELSE 2)
                                     + (IF sent THEN 1 ELSE 0)
             /\ calls' = <<c_dedup,
                           Call("get_wallet_stats", [address |-> trade.wallet_address]),
                           Call("get_market_baseline", [condition_id |-> trade.market_id]),
                           Call("analyze", trade),
                           Call("should_alert", verdict)>>
                         \o (IF over THEN <<Call("db.should_alert", pair)>> ELSE <<>>)
                         \o (IF gate THEN <<Call("send_alert", verdict)>> ELSE <<>>)
                         \o (IF sent THEN <<Call("record_alert", pair)>> ELSE <<>>)
                         \o (IF failed THEN <<>> ELSE c_record)

\* process_trade reading the wallet statistics after its own
\* update_wallet_stats
process_trade_score_after_update(trade, success) ==
    LET c_dedup == Call("is_trade_processed",
                        [transaction_hash |-> trade.transaction_hash])
        c_record == <<Call("record_trade", trade), Call("update_wallet_stats", trade)>>
    IN
    IF is_trade_processed(trade.transaction_hash)
    THEN /\ calls' = <<c_dedup>>
         /\ UNCHANGED <<trades, wallets, market_baselines, alerts,
                        trades_processed, alerts_sent, total_changes, delivered>>
    ELSE IF trade.size < config.min_size_usd
    THEN /\ trades' = record_trade(trade)
         /\ wallets' = update_wallet_stats(trade)
         /\ calls' = <<c_dedup>> \o c_record
         /\ total_changes' = total_changes + 2
         /\ UNCHANGED <<market_baselines, alerts, trades_processed, alerts_sent,
                        delivered>>
    ELSE LET updated == update_wallet_stats(trade)[Lower(trade.wallet_address)]
             wallet_stats ==
                 [address |-> Lower(trade.wallet_address),
                  total_trades |-> updated.total_trades,
                  first_seen |-> fromisoformat(updated.first_seen),
                  last_seen |-> fromisoformat(updated.last_seen),
                  total_volume |-> updated.total_volume,
                  avg_trade_size |-> updated.avg_trade_size]
             market_baseline == get_market_baseline(trade.market_id)
             cand == analyze(trade, wallet_stats, market_baseline)
             over == should_alert(cand)
             gate == over /\ db_should_alert(trade.wallet_address, trade.market_id,
                                             config.cooldown_hours)
             sent == gate /\ success
             new_trades == record_trade(trade)
             refresh == (trades_processed + 1) % RefreshEvery = 0
             pair == [wallet |-> trade.wallet_address, market_id |-> trade.market_id]
             verdict == [score |-> cand.score, triggers |-> cand.triggers]
         IN  /\ trades_processed' = trades_processed + 1
             /\ alerts_sent' = IF sent THEN alerts_sent + 1 ELSE alerts_sent
             /\ alerts' = IF sent
                          THEN record_alert(trade.wallet_address, trade.market_id,
                                            trade.side, cand.score, cand.triggers)
                          ELSE alerts
             /\ trades' = new_trades
             /\ wallets' = update_wallet_stats(trade)
             /\ market_baselines' =
                    IF refresh
                    THEN update_market_baseline(new_trades, trade.market_id)
                    ELSE market_baselines
             /\ delivered' = IF sent THEN Deliver(trade.transaction_hash)
                             ELSE delivered
             /\ total_changes' = total_changes + 2 + (IF sent THEN 1 ELSE 0)
                                     + (IF refresh THEN 1 ELSE 0)
             /\ calls' = <<c_dedup,
                           Call("get_wallet_stats", [address |-> trade.wallet_address]),
                           Call("get_market_baseline", [condition_id |-> trade.market_id]),
                           Call("analyze", trade),
                           Call("should_alert", verdict)>>
                         \o (IF over THEN <<Call("db.should_alert", pair)>> ELSE <<>>)
                         \o (IF gate THEN <<Call("send_alert", verdict),
                                            Call("send_alert.return",
                                                 [success |-> success])>>
                             ELSE <<>>)
                         \o (IF sent THEN <<Call("record_alert", pair)>> ELSE <<>>)
                         \o c_record
                         \o (IF refresh
                             THEN <<Call("update_market_baseline",
                                         [condition_id |-> trade.market_id])>>
                             ELSE <<>>)

\* process_trade counting the trades below min_size_usd in trades_processed
process_trade_count_small(trade, success) ==
    LET c_dedup == Call("is_trade_processed",
                        [transaction_hash |-> trade.transaction_hash])
        c_record == <<Call("record_trade", trade), Call("update_wallet_stats", trade)>>
    IN
    IF is_trade_processed(trade.transaction_hash)
    THEN /\ calls' = <<c_dedup>>
         /\ UNCHANGED <<trades, wallets, market_baselines, alerts,
                        trades_processed, alerts_sent, total_changes, delivered>>
    ELSE IF trade.size < config.min_size_usd
    THEN /\ trades' = record_trade(trade)
         /\ wallets' = update_wallet_stats(trade)
         /\ calls' = <<c_dedup>> \o c_record
         /\ total_changes' = total_changes + 2
         /\ trades_processed' = trades_processed + 1
         /\ UNCHANGED <<market_baselines, alerts, alerts_sent, delivered>>
    ELSE LET wallet_stats == get_wallet_stats(trade.wallet_address)
             market_baseline == get_market_baseline(trade.market_id)
             cand == analyze(trade, wallet_stats, market_baseline)
             over == should_alert(cand)
             gate == over /\ db_should_alert(trade.wallet_address, trade.market_id,
                                             config.cooldown_hours)
             sent == gate /\ success
             new_trades == record_trade(trade)
             refresh == (trades_processed + 1) % RefreshEvery = 0
             pair == [wallet |-> trade.wallet_address, market_id |-> trade.market_id]
             verdict == [score |-> cand.score, triggers |-> cand.triggers]
         IN  /\ trades_processed' = trades_processed + 1
             /\ alerts_sent' = IF sent THEN alerts_sent + 1 ELSE alerts_sent
             /\ alerts' = IF sent
                          THEN record_alert(trade.wallet_address, trade.market_id,
                                            trade.side, cand.score, cand.triggers)
                          ELSE alerts
             /\ trades' = new_trades
             /\ wallets' = update_wallet_stats(trade)
             /\ market_baselines' =
                    IF refresh
                    THEN update_market_baseline(new_trades, trade.market_id)
                    ELSE market_baselines
             /\ delivered' = IF sent THEN Deliver(trade.transaction_hash)
                             ELSE delivered
             /\ total_changes' = total_changes + 2 + (IF sent THEN 1 ELSE 0)
                                     + (IF refresh THEN 1 ELSE 0)
             /\ calls' = <<c_dedup,
                           Call("get_wallet_stats", [address |-> trade.wallet_address]),
                           Call("get_market_baseline", [condition_id |-> trade.market_id]),
                           Call("analyze", trade),
                           Call("should_alert", verdict)>>
                         \o (IF over THEN <<Call("db.should_alert", pair)>> ELSE <<>>)
                         \o (IF gate THEN <<Call("send_alert", verdict),
                                            Call("send_alert.return",
                                                 [success |-> success])>>
                             ELSE <<>>)
                         \o (IF sent THEN <<Call("record_alert", pair)>> ELSE <<>>)
                         \o c_record
                         \o (IF refresh
                             THEN <<Call("update_market_baseline",
                                         [condition_id |-> trade.market_id])>>
                             ELSE <<>>)

\* PolymarketAlertBot.process_trade; success is what notifier.send_alert
\* returns when it is called
process_trade(trade, success) ==
    LET c_dedup == Call("is_trade_processed",
                        [transaction_hash |-> trade.transaction_hash])
        c_record == <<Call("record_trade", trade), Call("update_wallet_stats", trade)>>
    IN
    IF is_trade_processed(trade.transaction_hash)
    THEN /\ calls' = <<c_dedup>>
         /\ UNCHANGED <<trades, wallets, market_baselines, alerts,
                        trades_processed, alerts_sent, total_changes, delivered>>
    ELSE IF trade.size < config.min_size_usd
    THEN /\ trades' = record_trade(trade)
         /\ wallets' = update_wallet_stats(trade)
         /\ calls' = <<c_dedup>> \o c_record
         /\ total_changes' = total_changes + 2
         /\ UNCHANGED <<market_baselines, alerts, trades_processed, alerts_sent,
                        delivered>>
    ELSE LET wallet_stats == get_wallet_stats(trade.wallet_address)
             market_baseline == get_market_baseline(trade.market_id)
             cand == analyze(trade, wallet_stats, market_baseline)
             over == should_alert(cand)
             gate == over /\ db_should_alert(trade.wallet_address, trade.market_id,
                                             config.cooldown_hours)
             sent == gate /\ success
             new_trades == record_trade(trade)
             refresh == (trades_processed + 1) % RefreshEvery = 0
             pair == [wallet |-> trade.wallet_address, market_id |-> trade.market_id]
             verdict == [score |-> cand.score, triggers |-> cand.triggers]
         IN  /\ trades_processed' = trades_processed + 1
             /\ alerts_sent' = IF sent THEN alerts_sent + 1 ELSE alerts_sent
             /\ alerts' = IF sent
                          THEN record_alert(trade.wallet_address, trade.market_id,
                                            trade.side, cand.score, cand.triggers)
                          ELSE alerts
             /\ trades' = new_trades
             /\ wallets' = update_wallet_stats(trade)
             /\ market_baselines' =
                    IF refresh
                    THEN update_market_baseline(new_trades, trade.market_id)
                    ELSE market_baselines
             /\ delivered' = IF sent THEN Deliver(trade.transaction_hash)
                             ELSE delivered
             /\ total_changes' = total_changes + 2 + (IF sent THEN 1 ELSE 0)
                                     + (IF refresh THEN 1 ELSE 0)
             /\ calls' = <<c_dedup,
                           Call("get_wallet_stats", [address |-> trade.wallet_address]),
                           Call("get_market_baseline", [condition_id |-> trade.market_id]),
                           Call("analyze", trade),
                           Call("should_alert", verdict)>>
                         \o (IF over THEN <<Call("db.should_alert", pair)>> ELSE <<>>)
                         \o (IF gate THEN <<Call("send_alert", verdict),
                                            Call("send_alert.return",
                                                 [success |-> success])>>
                             ELSE <<>>)
                         \o (IF sent THEN <<Call("record_alert", pair)>> ELSE <<>>)
                         \o c_record
                         \o (IF refresh
                             THEN <<Call("update_market_baseline",
                                         [condition_id |-> trade.market_id])>>
                             ELSE <<>>)

----------------------------------------------------------------------------
(* The bot: any stream of trades, with time passing between calls *)

\* a process that has just connected: nothing written on the connection,
\* nothing delivered, no poll_cycle running
FreshProcess ==
    /\ total_changes = 0
    /\ returned = None
    /\ delivered = <<>>
    /\ batch = <<>>
    /\ cursor = 0
    /\ outcome = "none"
    /\ tasks = <<>>

Init ==
    /\ trades = <<>>
    /\ wallets = <<>>
    /\ market_baselines = <<>>
    /\ alerts = <<>>
    /\ trades_processed = 0
    /\ alerts_sent = 0
    /\ now \in StartTimes
    /\ tz \in TzOffsets
    /\ config \in Configs
    /\ calls = <<>>
    /\ probe = None
    /\ candidate = None
    /\ FreshProcess

\* one iteration of the "for trade in trades" loop of poll_cycle
ProcessTrade ==
    /\ \E trade \in Trades, success \in BOOLEAN : process_trade(trade, success)
    /\ UNCHANGED <<now, tz, config, probe, candidate>>
    /\ UNCHANGED <<returned, batch, cursor, outcome, tasks>>

\* the wall clock advances while the loop sleeps
Tick ==
    /\ \E step \in TickSteps :
          /\ now + step <= MaxTime
          /\ now' = now + step
    /\ calls' = <<>>
    /\ UNCHANGED <<trades, wallets, market_baselines, alerts, trades_processed,
                   alerts_sent, tz, config, probe, candidate>>
    /\ UNCHANGED <<total_changes, returned, delivered, batch, cursor, outcome, tasks>>

Next == ProcessTrade \/ Tick

Spec == Init /\ [][Next]_vars

----------------------------------------------------------------------------
(* The bot late in a run: close to its 100th scored trade, the store       *)
(* holding the trades it has scored so far                                 *)

\* trades_processed when the run is picked up
WarmCounts == {RefreshEvery - 2, RefreshEvery - 1}

\* the row record_trade stored for each of the trades scored so far: 2000
\* USD bought by one wallet on market m1
WarmRow ==
    [market_id |-> "m1", wallet_address |-> Lower(<<"B">>), side |-> "BUY",
     size |-> 2000, price |-> 50, timestamp |-> isoformat(5)]

InitWarm ==
    /\ now \in StartTimes
    /\ tz \in TzOffsets
    /\ config = DefaultConfig
    /\ trades_processed \in WarmCounts
    /\ trades = [h \in (RefreshEvery + 1)..(RefreshEvery + trades_processed) |-> WarmRow]
    /\ wallets = (Lower(<<"B">>) :>
                      [total_trades |-> trades_processed,
                       first_seen |-> isoformat(LocalNow),
                       last_seen |-> isoformat(LocalNow),
                       total_volume |-> 2000 * trades_processed,
                       avg_trade_size |-> Rat(2000 * trades_processed, trades_processed)])
    /\ market_baselines = <<>>
    /\ alerts = <<>>
    /\ alerts_sent = 0
    /\ calls = <<>>
    /\ probe = None
    /\ candidate = None
    /\ total_changes = 2 * trades_processed
    /\ returned = None
    /\ delivered = <<>>
    /\ batch = <<>>
    /\ cursor = 0
    /\ outcome = "none"
    /\ tasks = <<>>

SpecWarm == InitWarm /\ [][Next]_vars

----------------------------------------------------------------------------
(* The polling loop with a store that may fail: start, poll_cycle and      *)
(* process_trade when one store call of the trade raises                   *)

\* the store calls process_trade makes
StoreOps ==
    {"is_trade_processed", "get_wallet_stats", "get_market_baseline",
     "should_alert", "record_alert", "record_trade", "update_wallet_stats",
     "update_market_baseline"}

\* the position of each store call in process_trade
StageOf(op) ==
    CASE op = "is_trade_processed" -> 1
      [] op = "get_wallet_stats" -> 2
      [] op = "get_market_baseline" -> 3
      [] op = "should_alert" -> 4
      [] op = "record_alert" -> 5
      [] op = "record_trade" -> 6
      [] op = "update_wallet_stats" -> 7
      [] op = "update_market_baseline" -> 8

\* whether an exception raised inside the store call leaves it: record_trade
\* catches every exception and returns False, the others catch nothing
Propagates(op) == op # "record_trade"

\* process_trade when the store call fault raises at its execute: the calls
\* before it have taken effect, the failing call has not, and the calls after
\* it run only if the exception was caught inside the store
process_trade_faulty(trade, success, fault) ==
    LET h == trade.transaction_hash
        stop == IF Propagates(fault) THEN StageOf(fault) ELSE 9
        done(s) == s < stop /\ s # StageOf(fault)
        dup == is_trade_processed(h)
        small == trade.size < config.min_size_usd
        cand == analyze(trade, get_wallet_stats(trade.wallet_address),
                        get_market_baseline(trade.market_id))
        over == should_alert(cand)
        gate == over /\ db_should_alert(trade.wallet_address, trade.market_id,
                                        config.cooldown_hours)
        sent == stop > 4 /\ gate /\ success
        refresh == (trades_processed + 1) % RefreshEvery = 0
        new_trades == IF done(6) THEN record_trade(trade) ELSE trades
        new_wallets == IF done(7) THEN update_wallet_stats(trade) ELSE wallets
        written(b) == IF b THEN 1 ELSE 0
        called == CASE fault = "is_trade_processed" -> TRUE
                    [] dup -> FALSE
                    [] small -> fault \in {"record_trade", "update_wallet_stats"}
                    [] fault = "should_alert" -> over
                    [] fault = "record_alert" -> gate /\ success
                    [] fault = "update_market_baseline" -> refresh
                    [] OTHER -> TRUE
    IN
    /\ called
    /\ calls' = <<Call("is_trade_processed", [transaction_hash |-> h]),
                  Call("storage_error", [op |-> fault, transaction_hash |-> h])>>
    /\ IF fault = "is_trade_processed"
       THEN UNCHANGED <<trades, wallets, market_baselines, alerts,
                        trades_processed, alerts_sent, total_changes, delivered>>
       ELSE IF small
       THEN /\ trades' = new_trades
            /\ wallets' = new_wallets
            /\ total_changes' = total_changes + written(done(6)) + written(done(7))
            /\ UNCHANGED <<market_baselines, alerts, trades_processed,
                           alerts_sent, delivered>>
       ELSE /\ trades_processed' = IF stop > 3 THEN trades_processed + 1
                                   ELSE trades_processed
            /\ alerts_sent' = IF sent THEN alerts_sent + 1 ELSE alerts_sent
            /\ delivered' = IF sent THEN Deliver(h) ELSE delivered
            /\ alerts' = IF sent /\ done(5)
                         THEN record_alert(trade.wallet_address, trade.market_id,
                                           trade.side, cand.score, cand.triggers)
                         ELSE alerts
            /\ trades' = new_trades
            /\ wallets' = new_wallets
            /\ market_baselines' =
                   IF refresh /\ done(8)
                   THEN update_market_baseline(new_trades, trade.market_id)
                   ELSE market_baselines
            /\ total_changes' = total_changes + written(sent /\ done(5))
                                    + written(done(6)) + written(done(7))
                                    + written(refresh /\ done(8))

\* the transaction hashes the API may return
CycleHashes == 1..(MaxHash + 1)

\* the trade the API returns for a transaction hash: the second is below
\* min_size_usd, the others are large enough to be scored
CycleTrade(h) ==
    [transaction_hash |-> h, market_id |-> "m1", wallet_address |-> <<"a">>,
     side |-> "BUY", size |-> IF h = 2 THEN 400 ELSE 10000, price |-> 50,
     timestamp |-> 5]

CycleTrades == {CycleTrade(h) : h \in CycleHashes}

\* what get_recent_trades may return: nothing, or up to two trades, which
\* may be trades returned before
Batches ==
    {<<>>} \cup {<<t>> : t \in CycleTrades}
           \cup {<<t, u>> : t \in CycleTrades, u \in CycleTrades}

\* a bot on a new database; with a threshold low enough for a first trade
\* to qualify, the cooldown check may have failed on 99 scored trades before
InitCycle ==
    /\ trades = <<>>
    /\ wallets = <<>>
    /\ market_baselines = <<>>
    /\ alerts = <<>>
    /\ config \in Configs
    /\ trades_processed \in
           IF config.alert_threshold
                  <= config.fresh_wallet_points + config.large_size_points
           THEN {0, RefreshEvery - 1} ELSE {0}
    /\ alerts_sent = 0
    /\ now \in StartTimes
    /\ tz \in TzOffsets
    /\ calls = <<>>
    /\ probe = None
    /\ candidate = None
    /\ FreshProcess

\* poll_cycle up to the loop: the batch is fetched; an empty batch ends the
\* cycle
Fetch ==
    /\ cursor = 0
    /\ \E b \in Batches :
          /\ batch' = b
          /\ cursor' = IF b = <<>> THEN 0 ELSE 1
          /\ outcome' = IF b = <<>> THEN "complete" ELSE "running"
    /\ calls' = <<>>
    /\ UNCHANGED <<trades, wallets, market_baselines, alerts, trades_processed,
                   alerts_sent, now, tz, config, probe, candidate,
                   total_changes, returned, delivered, tasks>>

\* the loop moves to the next trade, or poll_cycle returns after the last
Advance ==
    IF cursor = Len(batch)
    THEN cursor' = 0 /\ outcome' = "complete"
    ELSE cursor' = cursor + 1 /\ outcome' = outcome

\* one iteration of the loop in which no store call fails
StepClean ==
    /\ cursor \in DOMAIN batch
    /\ \E success \in BOOLEAN : process_trade(batch[cursor], success)
    /\ Advance
    /\ UNCHANGED <<now, tz, config, probe, candidate, returned, batch, tasks>>

\* one iteration of the loop in which one store call fails: an exception
\* that leaves process_trade leaves poll_cycle and is caught in start
StepFaulty ==
    /\ cursor \in DOMAIN batch
    /\ total_changes <= MaxRetries
    /\ (trades_processed + 1) % RefreshEvery <= MaxRetries
    /\ \E success \in BOOLEAN, fault \in StoreOps :
          /\ process_trade_faulty(batch[cursor], success, fault)
          /\ IF Propagates(fault)
             THEN cursor' = 0 /\ outcome' = "error"
             ELSE Advance
    /\ UNCHANGED <<now, tz, config, probe, candidate, returned, batch, tasks>>

NextCycle == Fetch \/ StepClean \/ StepFaulty

SpecCycle == InitCycle /\ [][NextCycle]_vars

\* the loop while the store works; a started iteration runs to its end
NextClean == Fetch \/ StepClean

SpecCycleFair == InitCycle /\ [][NextClean]_vars /\ WF_vars(StepClean)

----------------------------------------------------------------------------
(* Two instances of the bot on one database file, each in process_trade;   *)
(* every await of a store call is a point where the other may run          *)

RaceTasks == {1, 2}

\* the trade each instance is processing: distinct transactions of one
\* wallet on one market
RaceTrade(i, size) ==
    [transaction_hash |-> i, market_id |-> "m1", wallet_address |-> <<"a">>,
     side |-> "BUY", size |-> size, price |-> 50, timestamp |-> 5]

\* the wallet row after one earlier trade of 400 USD, and that trade's row
KnownWallet ==
    (Lower(<<"a">>) :>
         [total_trades |-> 1, first_seen |-> isoformat(5), last_seen |-> isoformat(5),
          total_volume |-> 400, avg_trade_size |-> Rat(400, 1)])

KnownTrade ==
    ((MaxHash + 1) :>
         [market_id |-> "m1", wallet_address |-> Lower(<<"a">>), side |-> "BUY",
          size |-> 400, price |-> 50, timestamp |-> isoformat(5)])

InitRace ==
    /\ \/ trades = <<>> /\ wallets = <<>>
       \/ trades = KnownTrade /\ wallets = KnownWallet
    /\ market_baselines = <<>>
    /\ alerts = <<>>
    /\ trades_processed = 0
    /\ alerts_sent = 0
    /\ now \in StartTimes
    /\ tz \in TzOffsets
    /\ config \in Configs
    /\ calls = <<>>
    /\ probe = None
    /\ candidate = None
    /\ total_changes = 0
    /\ returned = None
    /\ delivered = <<>>
    /\ batch = <<>>
    /\ cursor = 0
    /\ outcome = "none"
    /\ \E s1 \in Sizes, s2 \in Sizes :
          tasks = [i \in RaceTasks |->
                      [pc |-> "start",
                       trade |-> RaceTrade(i, IF i = 1 THEN s1 ELSE s2),
                       score |-> 0, triggers |-> <<>>, stats |-> None,
                       trades_processed |-> 0, alerts_sent |-> 0]]

\* what a step of an instance leaves alone besides the tables it writes
RaceFrame ==
    UNCHANGED <<market_baselines, trades_processed, alerts_sent, now, tz, config,
                calls, probe, candidate, total_changes, returned, batch, cursor,
                outcome>>

\* process_trade up to the verdict: the duplicate check, the size check, the
\* two reads and analyze
RaceScore ==
    \E i \in RaceTasks :
       LET t == tasks[i].trade
           cand == analyze(t, get_wallet_stats(t.wallet_address),
                           get_market_baseline(t.market_id))
       IN  /\ tasks[i].pc = "start"
           /\ tasks' = [tasks EXCEPT ![i] =
                 IF is_trade_processed(t.transaction_hash)
                 THEN [@ EXCEPT !.pc = "done"]
                 ELSE IF t.size < config.min_size_usd
                 THEN [@ EXCEPT !.pc = "record_trade"]
                 ELSE [@ EXCEPT !.pc = IF should_alert(cand) THEN "should_alert"
                                       ELSE "record_trade",
                                !.score = cand.score,
                                !.triggers = cand.triggers,
                                !.trades_processed = @ + 1]]
           /\ UNCHANGED <<trades, wallets, alerts, delivered>>
           /\ RaceFrame

\* await self.db.should_alert(...)
RaceShouldAlert ==
    \E i \in RaceTasks :
       LET t == tasks[i].trade IN
       /\ tasks[i].pc = "should_alert"
       /\ tasks' = [tasks EXCEPT ![i].pc =
              IF db_should_alert(t.wallet_address, t.market_id, config.cooldown_hours)
              THEN "send_alert" ELSE "record_trade"]
       /\ UNCHANGED <<trades, wallets, alerts, delivered>>
       /\ RaceFrame

\* await self.notifier.send_alert(candidate), and alerts_sent += 1 on success
RaceSendAlert ==
    \E i \in RaceTasks, success \in BOOLEAN :
       /\ tasks[i].pc = "send_alert"
       /\ tasks' = [tasks EXCEPT ![i] =
              IF success
              THEN [@ EXCEPT !.pc = "record_alert", !.alerts_sent = @ + 1]
              ELSE [@ EXCEPT !.pc = "record_trade"]]
       /\ delivered' = IF success THEN Deliver(tasks[i].trade.transaction_hash)
                       ELSE delivered
       /\ UNCHANGED <<trades, wallets, alerts>>
       /\ RaceFrame

\* await self.db.record_alert(...)
RaceRecordAlert ==
    \E i \in RaceTasks :
       LET t == tasks[i].trade IN
       /\ tasks[i].pc = "record_alert"
       /\ alerts' = record_alert(t.wallet_address, t.market_id, t.side,
                                 tasks[i].score, tasks[i].triggers)
       /\ tasks' = [tasks EXCEPT ![i].pc = "record_trade"]
       /\ UNCHANGED <<trades, wallets, delivered>>
       /\ RaceFrame

\* await self.db.record_trade(trade)
RaceRecordTrade ==
    \E i \in RaceTasks :
       /\ tasks[i].pc = "record_trade"
       /\ trades' = record_trade(tasks[i].trade)
       /\ tasks' = [tasks EXCEPT ![i].pc = "get_wallet_stats"]
       /\ UNCHANGED <<wallets, alerts, delivered>>
       /\ RaceFrame

\* update_wallet_stats: stats = await self.get_wallet_stats(address)
RaceReadWallet ==
    \E i \in RaceTasks :
       /\ tasks[i].pc = "get_wallet_stats"
       /\ tasks' = [tasks EXCEPT ![i] =
              [@ EXCEPT !.pc = "write_wallet",
                        !.stats = get_wallet_stats(tasks[i].trade.wallet_address)]]
       /\ UNCHANGED <<trades, wallets, alerts, delivered>>
       /\ RaceFrame

\* update_wallet_stats: the UPDATE computed from the stats read before, or
\* the INSERT, which raises on a row with the same primary key
RaceWriteWallet ==
    \E i \in RaceTasks :
       LET t == tasks[i].trade
           stats == tasks[i].stats
           address == Lower(t.wallet_address)
           now_iso == isoformat(LocalNow)
       IN  /\ tasks[i].pc = "write_wallet"
           /\ IF stats # None
              THEN /\ wallets' = [wallets EXCEPT ![address] =
                          [@ EXCEPT !.total_trades = stats.total_trades + 1,
                                    !.last_seen = now_iso,
                                    !.total_volume = stats.total_volume + t.size,
                                    !.avg_trade_size =
                                        Rat(stats.total_volume + t.size,
                                            stats.total_trades + 1)]]
                   /\ tasks' = [tasks EXCEPT ![i].pc = "done"]
              ELSE IF address \in DOMAIN wallets
              THEN /\ wallets' = wallets
                   /\ tasks' = [tasks EXCEPT ![i].pc = "raised"]
              ELSE /\ wallets' = wallets @@ (address :>
                          [total_trades |-> 1, first_seen |-> now_iso,
                           last_seen |-> now_iso, total_volume |-> t.size,
                           avg_trade_size |-> Rat(t.size, 1)])
                   /\ tasks' = [tasks EXCEPT ![i].pc = "done"]
           /\ UNCHANGED <<trades, alerts, delivered>>
           /\ RaceFrame

NextRace ==
    \/ RaceScore
    \/ RaceShouldAlert
    \/ RaceSendAlert
    \/ RaceRecordAlert
    \/ RaceRecordTrade
    \/ RaceReadWallet
    \/ RaceWriteWallet

SpecRace == InitRace /\ [][NextRace]_vars

----------------------------------------------------------------------------
(* The alert ledger on its own: Database.record_alert and                  *)
(* Database.should_alert called at any hour                                *)

LedgerStartTimes == {20}

InitLedger ==
    /\ trades = <<>>
    /\ wallets = <<>>
    /\ market_baselines = <<>>
    /\ alerts = <<>>
    /\ trades_processed = 0
    /\ alerts_sent = 0
    /\ now \in LedgerStartTimes
    /\ tz \in TzOffsets
    /\ config = DefaultConfig
    /\ calls = <<>>
    /\ probe = None
    /\ candidate = None
    /\ FreshProcess

RecordAlert ==
    /\ Len(alerts) < MaxAlerts
    /\ \E wallet \in Addresses, market_id \in Markets :
          alerts' = record_alert(wallet, market_id, "BUY",
                                 config.alert_threshold, <<"Fresh wallet">>)
    /\ total_changes' = total_changes + 1
    /\ UNCHANGED <<trades, wallets, market_baselines, trades_processed,
                   alerts_sent, now, tz, config, calls, probe, candidate>>
    /\ UNCHANGED <<returned, delivered, batch, cursor, outcome, tasks>>

TickHour ==
    /\ now < MaxLedgerTime
    /\ now' = now + 1
    /\ UNCHANGED <<trades, wallets, market_baselines, alerts, trades_processed,
                   alerts_sent, tz, config, calls, probe, candidate>>
    /\ UNCHANGED <<total_changes, returned, delivered, batch, cursor, outcome, tasks>>

NextLedger == RecordAlert \/ TickHour

SpecLedger == InitLedger /\ [][NextLedger]_vars

----------------------------------------------------------------------------
(* The scorer on its own: AnomalyAnalyzer.analyze applied to any trade,    *)
(* wallet snapshot and baseline snapshot                                   *)

ProbeNow == {1000}
ProbeSizes == {0, 400, 2000, 10000, 50000}
ProbeTotalTrades == {1, 5, 6, 7}
ProbeVolumes == {0, 400, 12000}
\* wallet ages in hours, around 30 and 31 whole days
ProbeAges == {0, 719, 720, 721, 743, 744, 745}

\* ascending size lists a market may hold when its baseline is refreshed
ProbeSamples ==
    {<<0, 0>>, <<400>>, <<400, 2000, 10000>>,
     <<400, 400, 400, 400, 400, 400, 400, 400, 400, 400, 2000, 10000>>,
     <<40000>>,
     <<40000, 40000, 40000, 40000, 40000, 40000, 40000,
       40000, 40000, 40000, 40000, 40000, 40000, 40000>>}

AnalyzerConfigs ==
    Configs \cup
    {[DefaultConfig EXCEPT !.market_percentile = 90],
     [DefaultConfig EXCEPT !.fresh_wallet_points = 1, !.large_size_points = 2,
                           !.market_anomaly_points = 4, !.wallet_shift_points = 8,
                           !.concentration_points = 16]}

ProbeTrades ==
    [transaction_hash : {1}, market_id : {"m1"}, wallet_address : {<<"A">>},
     side : {"BUY"}, size : ProbeSizes, price : {50}, timestamp : {5}]

\* WalletStats as get_wallet_stats returns them
ProbeWallets ==
    {[address |-> <<"a">>, total_trades |-> n,
      first_seen |-> LocalNow - age, last_seen |-> LocalNow,
      total_volume |-> v, avg_trade_size |-> Rat(v, n)] :
        n \in ProbeTotalTrades, v \in ProbeVolumes, age \in ProbeAges}

\* MarketBaseline as get_market_baseline returns it after a refresh
ProbeBaselines ==
    {LET row == baseline_row(sample) IN
     [condition_id |-> "m1", trade_count |-> row.trade_count,
      total_volume |-> row.total_volume, avg_trade_size |-> row.avg_trade_size,
      median_trade_size |-> row.median_trade_size,
      p90_trade_size |-> row.p90_trade_size,
      p95_trade_size |-> row.p95_trade_size,
      last_updated |-> fromisoformat(row.last_updated)] : sample \in ProbeSamples}

InitAnalyze ==
    /\ trades = <<>>
    /\ wallets = <<>>
    /\ market_baselines = <<>>
    /\ alerts = <<>>
    /\ trades_processed = 0
    /\ alerts_sent = 0
    /\ now \in ProbeNow
    /\ tz \in TzOffsets
    /\ config \in AnalyzerConfigs
    /\ calls = <<>>
    /\ probe \in [trade : ProbeTrades,
                  wallet_stats : ProbeWallets \cup {None},
                  market_baseline : ProbeBaselines \cup {None}]
    /\ candidate = None
    /\ FreshProcess

Analyze ==
    /\ candidate = None
    /\ candidate' = analyze(probe.trade, probe.wallet_stats, probe.market_baseline)
    /\ UNCHANGED <<trades, wallets, market_baselines, alerts, trades_processed,
                   alerts_sent, now, tz, config, calls, probe>>
    /\ UNCHANGED <<total_changes, returned, delivered, batch, cursor, outcome, tasks>>

NextAnalyze == Analyze

SpecAnalyze == InitAnalyze /\ [][NextAnalyze]_vars

----------------------------------------------------------------------------
(* The scorer invoked repeatedly on the same arguments, at once or an hour *)
(* later, while the store changes in between                               *)

\* analyze called again on the same arguments at the same time
AnalyzeAgain ==
    /\ candidate # None
    /\ candidate' = analyze(probe.trade, probe.wallet_stats, probe.market_baseline)
    /\ UNCHANGED <<trades, wallets, market_baselines, alerts, trades_processed,
                   alerts_sent, now, tz, config, calls, probe>>
    /\ UNCHANGED <<total_changes, returned, delivered, batch, cursor, outcome, tasks>>

\* analyze called again on the same arguments after the clock moved on
AnalyzeLater ==
    /\ candidate # None
    /\ \E t \in ProbeNow : now < t + MaxProbeWait
    /\ now' = now + 1
    /\ UNCHANGED <<trades, wallets, market_baselines, alerts, trades_processed,
                   alerts_sent, tz, config, calls, probe>>
    /\ UNCHANGED <<total_changes, returned, delivered, batch, cursor, outcome, tasks>>
    /\ candidate' = analyze(probe.trade, probe.wallet_stats, probe.market_baseline)'

\* between two calls the tracker and the ledger are written: a small trade
\* of the probed wallet is counted and an alert of the pair is recorded
StoreChanges ==
    /\ candidate # None
    /\ wallets = <<>>
    /\ wallets' = update_wallet_stats([probe.trade EXCEPT !.size = 400])
    /\ alerts' = record_alert(probe.trade.wallet_address, probe.trade.market_id,
                              probe.trade.side, candidate.score, candidate.triggers)
    /\ total_changes' = total_changes + 2
    /\ UNCHANGED <<trades, market_baselines, trades_processed, alerts_sent, now,
                   tz, config, calls, probe, candidate>>
    /\ UNCHANGED <<returned, delivered, batch, cursor, outcome, tasks>>

NextPurity == Analyze \/ AnalyzeAgain \/ AnalyzeLater \/ StoreChanges

SpecPurity == InitAnalyze /\ [][NextPurity]_vars

----------------------------------------------------------------------------
(* The store on its own: Database.record_trade and                         *)
(* Database.update_market_baseline called on a trades table of any length; *)
(* calls keeps the operations performed since the start                    *)

\* size of the k-th stored trade: 10, 20, ..., 300 in a shuffled order
SampleSize(k) == 10 * ((7 * k) % 31)

SampleShapes == {"spread", "flat", "split"}

\* the row record_trade stores for the k-th trade of a shape
StoredRow(k, shape) ==
    [market_id |-> IF shape = "split" /\ k % 2 = 0 THEN "m2" ELSE "m1",
     wallet_address |-> Lower(<<"b">>), side |-> "BUY",
     size |-> IF shape = "flat" THEN 400 ELSE SampleSize(k),
     price |-> 50, timestamp |-> isoformat(5)]

\* trades tables left by n calls of record_trade
StoredTables ==
    {[k \in 1..n |-> StoredRow(k, shape)] : n \in 0..MaxSample, shape \in SampleShapes}

InitStore ==
    /\ trades \in StoredTables
    /\ wallets = <<>>
    /\ market_baselines = <<>>
    /\ alerts = <<>>
    /\ trades_processed = 0
    /\ alerts_sent = 0
    /\ now \in LedgerStartTimes
    /\ tz \in TzOffsets
    /\ config = DefaultConfig
    /\ calls = <<>>
    /\ probe = None
    /\ candidate = None
    /\ FreshProcess

StoreTrade ==
    /\ Len(calls) < MaxStoreOps
    /\ \E market_id \in Markets :
          LET trade == [transaction_hash |-> Cardinality(DOMAIN trades) + 1,
                        market_id |-> market_id, wallet_address |-> <<"b">>,
                        side |-> "BUY", size |-> 400, price |-> 50, timestamp |-> 5]
          IN  /\ trades' = record_trade(trade)
              /\ calls' = Append(calls, Call("record_trade", trade))
              /\ total_changes' = total_changes + record_trade_changes(trade)
              /\ returned' = record_trade_returns(trade)
    /\ UNCHANGED <<wallets, market_baselines, alerts, trades_processed,
                   alerts_sent, now, tz, config, probe, candidate>>
    /\ UNCHANGED <<delivered, batch, cursor, outcome, tasks>>

RefreshBaseline ==
    /\ Len(calls) < MaxStoreOps
    /\ \E condition_id \in Markets :
          /\ market_baselines' = update_market_baseline(trades, condition_id)
          /\ calls' = Append(calls, Call("update_market_baseline",
                                         [condition_id |-> condition_id]))
          /\ total_changes' =
                 IF \E h \in DOMAIN trades : trades[h].market_id = condition_id
                 THEN total_changes + 1 ELSE total_changes
    /\ UNCHANGED <<trades, wallets, alerts, trades_processed, alerts_sent,
                   now, tz, config, probe, candidate>>
    /\ UNCHANGED <<returned, delivered, batch, cursor, outcome, tasks>>

\* record_trade called again for the first stored identifier, with other
\* field values
StoreDuplicate ==
    /\ Len(calls) < MaxStoreOps
    /\ 1 \in DOMAIN trades
    /\ LET trade == [transaction_hash |-> 1, market_id |-> "m2",
                     wallet_address |-> <<"A">>, side |-> "BUY", size |-> 2000,
                     price |-> 50, timestamp |-> 5]
       IN  /\ trades' = record_trade(trade)
           /\ calls' = Append(calls, Call("record_trade", trade))
           /\ total_changes' = total_changes + record_trade_changes(trade)
           /\ returned' = record_trade_returns(trade)
    /\ UNCHANGED <<wallets, market_baselines, alerts, trades_processed,
                   alerts_sent, now, tz, config, probe, candidate>>
    /\ UNCHANGED <<delivered, batch, cursor, outcome, tasks>>

StoreWait ==
    /\ Len(calls) < MaxStoreOps
    /\ now' = now + 1
    /\ calls' = Append(calls, Call("sleep", [hours |-> 1]))
    /\ UNCHANGED <<trades, wallets, market_baselines, alerts, trades_processed,
                   alerts_sent, tz, config, probe, candidate>>
    /\ UNCHANGED <<total_changes, returned, delivered, batch, cursor, outcome, tasks>>

NextStore == StoreTrade \/ StoreDuplicate \/ RefreshBaseline \/ StoreWait

SpecStore == InitStore /\ [][NextStore]_vars

----------------------------------------------------------------------------
(* Properties *)

NormAddresses == {Lower(a) : a \in Addresses}

Called(log, op) == \E i \in DOMAIN log : log[i].op = op

\* recorded transaction identifiers of wallet a
RecordedOf(a) == {h \in DOMAIN trades : trades[h].wallet_address = a}

RECURSIVE VolumeOf(_)
VolumeOf(hs) ==
    IF hs = {} THEN 0
    ELSE LET h == CHOOSE x \in hs : TRUE IN trades[h].size + VolumeOf(hs \ {h})

\* C1: a process_trade call for a transaction identifier that is already
\* recorded leaves the trades table, every wallets row, every
\* market_baselines row and the alert ledger as they were.
C1_DuplicateLeavesStoreUnchanged ==
    [][(calls' # <<>> /\ calls'[1].arg.transaction_hash \in DOMAIN trades)
          => UNCHANGED <<trades, wallets, market_baselines, alerts>>]_vars

\* a duplicate was handed to process_trade after its wallet had been alerted on
C1_Witness ==
    /\ Len(calls) = 1
    /\ calls[1].arg.transaction_hash \in DOMAIN trades
    /\ alerts # <<>>
    /\ Cardinality(DOMAIN trades) = MaxHash

\* C2: a wallets row exists exactly for the lowercase addresses that have a
\* recorded trade; its total_trades is the number of recorded transaction
\* identifiers of the address and its total_volume the sum of their sizes,
\* trades below min_size_usd included.
C2_WalletStatsCountEveryTrade ==
    /\ DOMAIN wallets \subseteq NormAddresses
    /\ \A a \in NormAddresses :
          /\ (a \in DOMAIN wallets) <=> (RecordedOf(a) # {})
          /\ a \in DOMAIN wallets =>
                /\ wallets[a].total_trades = Cardinality(RecordedOf(a))
                /\ wallets[a].total_volume = VolumeOf(RecordedOf(a))

\* one wallet holds a trade below min_size_usd and one at or above it
C2_Witness ==
    \E a \in DOMAIN wallets : \E h1, h2 \in RecordedOf(a) :
        /\ trades[h1].size < config.min_size_usd
        /\ trades[h2].size >= config.min_size_usd
        /\ wallets[a].total_trades = 2

\* the instant, in UTC hours, a stored created_at denotes
CreatedAt(row) == row.created_at[1] * 24 + row.created_at[3]

SamePair(r1, r2) ==
    r1.wallet_address = r2.wallet_address /\ r1.market_id = r2.market_id

PairRecorded(w, m) ==
    \E i \in DOMAIN alerts :
        alerts[i].wallet_address = Lower(w) /\ alerts[i].market_id = m

\* C3: should_alert(W, M, cooldown_hours) is true exactly when no alert of
\* the pair (W, M) was created later than cooldown_hours before the query:
\* false from the creation time T until T + 6h, true from T + 6h on.
C3_CooldownWindow ==
    \A w \in Addresses, m \in Markets :
        db_should_alert(w, m, config.cooldown_hours)
            <=> ~ \E i \in DOMAIN alerts :
                      /\ alerts[i].wallet_address = Lower(w)
                      /\ alerts[i].market_id = m
                      /\ CreatedAt(alerts[i]) > now - config.cooldown_hours

\* C4: the cooldown is keyed on the pair: a pair without a record of its own
\* may always alert, and recording an alert for (W, M) changes the answer of
\* should_alert for no pair with another wallet or another market.
C4_CooldownKeyedOnPair ==
    /\ [](\A w \in Addresses, m \in Markets :
              ~PairRecorded(w, m) => db_should_alert(w, m, config.cooldown_hours))
    /\ [][Len(alerts') = Len(alerts) + 1 =>
             LET r == alerts'[Len(alerts')] IN
             \A w \in Addresses, m \in Markets :
                 (Lower(w) # r.wallet_address \/ m # r.market_id) =>
                     (db_should_alert(w, m, config.cooldown_hours)'
                          <=> db_should_alert(w, m, config.cooldown_hours))]_vars

\* (a, m1) is in cooldown while (a, m2) and (b, m1) may alert
C4_Witness ==
    /\ \A i \in DOMAIN alerts :
           alerts[i].wallet_address = <<"a">> /\ alerts[i].market_id = "m1"
    /\ ~db_should_alert(<<"A">>, "m1", config.cooldown_hours)
    /\ db_should_alert(<<"A">>, "m2", config.cooldown_hours)
    /\ db_should_alert(<<"b">>, "m1", config.cooldown_hours)

\* C5: the ledger never holds two alerts of one (wallet, market) pair
\* created less than cooldown_hours apart.
C5_OneAlertPerWindow ==
    \A i, j \in DOMAIN alerts :
        (i < j /\ SamePair(alerts[i], alerts[j])) =>
            CreatedAt(alerts[j]) - CreatedAt(alerts[i]) >= config.cooldown_hours

ArgOf(log, op) == log[CHOOSE i \in DOMAIN log : log[i].op = op].arg

IndexOf(log, op) == CHOOSE i \in DOMAIN log : log[i].op = op

\* C6: process_trade hands a trade to send_alert exactly when the trade is
\* not yet recorded, its size is at least min_size_usd, its score is at
\* least alert_threshold and Database.should_alert answers true for its
\* pair; Database.should_alert is asked only after the threshold test passed.
C6_SendIffQualified ==
    [][calls' # <<>> =>
         LET h == calls'[1].arg.transaction_hash IN
         IF h \in DOMAIN trades
         THEN ~Called(calls', "send_alert") /\ ~Called(calls', "db.should_alert")
         ELSE LET t == ArgOf(calls', "record_trade")
                  score == analyze(t, get_wallet_stats(t.wallet_address),
                                   get_market_baseline(t.market_id)).score
                  over == t.size >= config.min_size_usd
                              /\ score >= config.alert_threshold
              IN  /\ Called(calls', "send_alert") <=>
                         (over /\ db_should_alert(t.wallet_address, t.market_id,
                                                  config.cooldown_hours))
                  /\ Called(calls', "db.should_alert") =>
                         /\ over
                         /\ Called(calls', "should_alert")
                         /\ IndexOf(calls', "should_alert")
                                < IndexOf(calls', "db.should_alert")]_vars

\* a trade over the threshold was held back by the cooldown gate
C6_Witness ==
    /\ Called(calls, "db.should_alert")
    /\ ~Called(calls, "send_alert")
    /\ alerts # <<>>

\* the five triggers in the order analyze evaluates them, with the points
\* configured for each and whether its condition holds for the probe
TriggerTable ==
    <<[label |-> "Fresh wallet", points |-> config.fresh_wallet_points,
       holds |-> is_fresh_wallet(probe.wallet_stats)],
      [label |-> "Large size", points |-> config.large_size_points,
       holds |-> is_large_absolute_size(probe.trade)],
      [label |-> "Market anomaly", points |-> config.market_anomaly_points,
       holds |-> is_market_anomaly(probe.trade, probe.market_baseline)],
      [label |-> "Behavior shift", points |-> config.wallet_shift_points,
       holds |-> is_wallet_shift(probe.trade, probe.wallet_stats)],
      [label |-> "High concentration", points |-> config.concentration_points,
       holds |-> is_high_concentration(probe.trade, probe.market_baseline)]>>

RECURSIVE PointsOf(_)
PointsOf(tbl) ==
    IF tbl = <<>> THEN 0
    ELSE (IF Head(tbl).holds THEN Head(tbl).points ELSE 0) + PointsOf(Tail(tbl))

RECURSIVE LabelsOf(_)
LabelsOf(tbl) ==
    IF tbl = <<>> THEN <<>>
    ELSE (IF Head(tbl).holds THEN <<Head(tbl).label>> ELSE <<>>) \o LabelsOf(Tail(tbl))

Fires(label) == label \in Range(candidate.triggers)

\* C7: the score analyze returns is the sum of the configured points of the
\* triggers whose condition holds, and the triggers list holds one entry per
\* fired trigger in the order fresh wallet, large size, market anomaly,
\* behavior shift, high concentration; so 0 <= score <= the sum of all five.
C7_ScoreIsSumOfFiredTriggers ==
    candidate # None =>
        /\ candidate.score = PointsOf(TriggerTable)
        /\ candidate.triggers = LabelsOf(TriggerTable)
        /\ candidate.score >= 0
        /\ candidate.score <= config.fresh_wallet_points + config.large_size_points
                                + config.market_anomaly_points
                                + config.wallet_shift_points
                                + config.concentration_points

\* all five triggers fired under point values that differ from one another
C7_Witness ==
    /\ candidate # None
    /\ Len(candidate.triggers) = 5
    /\ config.concentration_points = 16
    /\ candidate.score = 31

DefaultFreshness ==
    config.fresh_wallet_max_trades = 5 /\ config.fresh_wallet_max_days = 30

\* C8 as stated: with the default settings the fresh-wallet trigger fires
\* for every wallet with total_trades <= 5 and never fires for a wallet with
\* total_trades = 6 first seen more than 30 days (720 hours) ago.
C8_FreshnessAsStated ==
    (candidate # None /\ probe.wallet_stats # None /\ DefaultFreshness) =>
        /\ probe.wallet_stats.total_trades <= 5 => Fires("Fresh wallet")
        /\ (probe.wallet_stats.total_trades = 6
              /\ LocalNow - probe.wallet_stats.first_seen > 30 * 24)
                 => ~Fires("Fresh wallet")

\* C8 amended: with the default settings the fresh-wallet trigger fires for
\* every wallet with total_trades <= 5 and never fires for a wallet with
\* total_trades = 6 whose age counts more than 30 whole days (31 days or
\* more since first_seen).
C8_FreshnessWholeDays ==
    (candidate # None /\ probe.wallet_stats # None /\ DefaultFreshness) =>
        /\ probe.wallet_stats.total_trades <= 5 => Fires("Fresh wallet")
        /\ (probe.wallet_stats.total_trades = 6
              /\ LocalNow - probe.wallet_stats.first_seen >= 31 * 24)
                 => ~Fires("Fresh wallet")

\* a wallet with six trades first seen exactly 31 days ago was scored
C8_Witness ==
    /\ candidate # None
    /\ probe.wallet_stats # None
    /\ probe.wallet_stats.total_trades = 6
    /\ LocalNow - probe.wallet_stats.first_seen = 31 * 24
    /\ ~Fires("Fresh wallet")

\* C9: analyze returns a candidate when wallet stats or baseline are absent:
\* without wallet stats the fresh-wallet trigger fires and behavior shift
\* does not; without a baseline neither market anomaly nor high
\* concentration fires; without both the score is fresh_wallet_points plus
\* large_size_points when size >= min_size_usd, and nothing else.
C9_AbsentSnapshots ==
    /\ (candidate = None /\ probe # None) => ENABLED Analyze
    /\ candidate # None =>
          /\ probe.wallet_stats = None =>
                Fires("Fresh wallet") /\ ~Fires("Behavior shift")
          /\ probe.market_baseline = None =>
                ~Fires("Market anomaly") /\ ~Fires("High concentration")
          /\ (probe.wallet_stats = None /\ probe.market_baseline = None) =>
                candidate.score =
                    config.fresh_wallet_points
                      + (IF probe.trade.size >= config.min_size_usd
                         THEN config.large_size_points ELSE 0)

\* a large trade was scored with neither wallet stats nor baseline
C9_Witness ==
    /\ candidate # None
    /\ probe.wallet_stats = None
    /\ probe.market_baseline = None
    /\ probe.trade.size >= config.min_size_usd
    /\ candidate.triggers = <<"Fresh wallet", "Large size">>

\* the percentile market_percentile selects
SelectedPercentile ==
    IF config.market_percentile = 95 THEN probe.market_baseline.p95_trade_size
    ELSE probe.market_baseline.p90_trade_size

\* C10: the market anomaly trigger fires exactly when a baseline is present,
\* the selected percentile (p95 for market_percentile 95, p90 for 90) is
\* positive and the trade size is at least that percentile.
C10_MarketAnomaly ==
    (candidate # None /\ config.market_percentile \in {90, 95}) =>
        (Fires("Market anomaly") <=>
            /\ probe.market_baseline # None
            /\ SelectedPercentile > 0
            /\ probe.trade.size >= SelectedPercentile)

\* under market_percentile 90 a trade between p90 and p95 fired the trigger
C10_Witness ==
    /\ candidate # None
    /\ config.market_percentile = 90
    /\ probe.market_baseline # None
    /\ probe.trade.size < probe.market_baseline.p95_trade_size
    /\ Fires("Market anomaly")

\* C11: the behavior shift trigger fires exactly when wallet stats are
\* present, avg_trade_size > 0 and trade.size / avg_trade_size is at least
\* wallet_size_multiplier; with avg_trade_size = 0 it does not fire and no
\* division by zero is evaluated.
C11_WalletShift ==
    candidate # None =>
        /\ Fires("Behavior shift") <=>
              /\ probe.wallet_stats # None
              /\ probe.wallet_stats.avg_trade_size.num > 0
              /\ probe.trade.size * probe.wallet_stats.avg_trade_size.den
                     >= config.wallet_size_multiplier
                            * probe.wallet_stats.avg_trade_size.num
        /\ \A d \in wallet_shift_divisors(probe.trade, probe.wallet_stats) :
               d.num # 0
        /\ (probe.wallet_stats # None /\ probe.wallet_stats.avg_trade_size.num = 0)
               => /\ ~Fires("Behavior shift")
                  /\ wallet_shift_divisors(probe.trade, probe.wallet_stats) = {}

\* a large trade of a wallet whose recorded trades all have size 0 was scored
C11_Witness ==
    /\ candidate # None
    /\ probe.wallet_stats # None
    /\ probe.wallet_stats.total_volume = 0
    /\ probe.wallet_stats.avg_trade_size.num = 0
    /\ probe.trade.size = 10000
    /\ ~Fires("Behavior shift")

\* C12: the high concentration trigger fires exactly when a baseline is
\* present, its total_volume is positive and 100 * trade.size / total_volume
\* is at least concentration_threshold_pct; with total_volume <= 0 it does
\* not fire and no division by zero is evaluated.
C12_HighConcentration ==
    candidate # None =>
        /\ Fires("High concentration") <=>
              /\ probe.market_baseline # None
              /\ probe.market_baseline.total_volume > 0
              /\ 100 * probe.trade.size
                     >= config.concentration_threshold_pct
                            * probe.market_baseline.total_volume
        /\ 0 \notin concentration_divisors(probe.trade, probe.market_baseline)
        /\ (probe.market_baseline # None /\ probe.market_baseline.total_volume <= 0)
               => /\ ~Fires("High concentration")
                  /\ concentration_divisors(probe.trade, probe.market_baseline) = {}

\* a large trade was scored against a baseline of zero total volume
C12_Witness ==
    /\ candidate # None
    /\ probe.market_baseline # None
    /\ probe.market_baseline.total_volume = 0
    /\ probe.market_baseline.trade_count = 2
    /\ probe.trade.size = 10000
    /\ ~Fires("High concentration")

\* recorded transaction identifiers of market m
MarketHashes(m) == {h \in DOMAIN trades : trades[h].market_id = m}

\* S[i], counting from 0, of the sizes of the trades hs sorted ascending
OrderStat(hs, i) ==
    CHOOSE v \in {trades[h].size : h \in hs} :
        /\ Cardinality({h \in hs : trades[h].size < v}) <= i
        /\ i < Cardinality({h \in hs : trades[h].size <= v})

\* the latest store operation was update_market_baseline(m)
Refreshed(m) ==
    /\ calls # <<>>
    /\ calls[Len(calls)].op = "update_market_baseline"
    /\ calls[Len(calls)].arg.condition_id = m

\* C13: after update_market_baseline on a market with n >= 1 recorded
\* trades, sorted ascending as S: trade_count = n, total_volume = sum(S),
\* avg = sum(S) / n, median = S[floor(n/2)], p90 = S[floor(0.90 n)] if
\* n > 10 else S[n-1], p95 = S[floor(0.95 n)] if n > 20 else S[n-1]; the
\* indices lie in 0..n-1, and for the 30 sizes 10, 20, ..., 300 p90 = S[27]
\* and p95 = S[28].
C13_BaselineStatistics ==
    \A m \in Markets :
        (Refreshed(m) /\ MarketHashes(m) # {}) =>
            LET hs == MarketHashes(m)
                n == Cardinality(hs)
                i90 == (9 * n) \div 10
                i95 == (19 * n) \div 20
            IN  /\ m \in DOMAIN market_baselines
                /\ market_baselines[m].trade_count = n
                /\ market_baselines[m].total_volume = VolumeOf(hs)
                /\ market_baselines[m].avg_trade_size.num * n
                       = VolumeOf(hs) * market_baselines[m].avg_trade_size.den
                /\ market_baselines[m].median_trade_size = OrderStat(hs, n \div 2)
                /\ i90 \in 0..(n - 1)
                /\ i95 \in 0..(n - 1)
                /\ market_baselines[m].p90_trade_size =
                       IF n > 10 THEN OrderStat(hs, i90) ELSE OrderStat(hs, n - 1)
                /\ market_baselines[m].p95_trade_size =
                       IF n > 20 THEN OrderStat(hs, i95) ELSE OrderStat(hs, n - 1)
                /\ {trades[h].size : h \in hs} = {10 * k : k \in 1..30} =>
                       /\ market_baselines[m].p90_trade_size = OrderStat(hs, 27)
                       /\ market_baselines[m].p95_trade_size = OrderStat(hs, 28)

\* the baseline of a market holding the 30 sizes 10, 20, ..., 300 was refreshed
C13_Witness ==
    /\ Refreshed("m1")
    /\ Cardinality(MarketHashes("m1")) = 30
    /\ {trades[h].size : h \in MarketHashes("m1")} = {10 * k : k \in 1..30}
    /\ market_baselines["m1"].median_trade_size = 160
    /\ market_baselines["m1"].p90_trade_size = 280
    /\ market_baselines["m1"].p95_trade_size = 290

\* the statistics of a market_baselines row, last_updated left aside
Statistics(row) ==
    [trade_count |-> row.trade_count, total_volume |-> row.total_volume,
     avg_trade_size |-> row.avg_trade_size,
     median_trade_size |-> row.median_trade_size,
     p90_trade_size |-> row.p90_trade_size, p95_trade_size |-> row.p95_trade_size]

\* market m was refreshed earlier and no trade has been recorded since
NoTradeSinceRefresh(m) ==
    \E i \in DOMAIN calls :
        /\ calls[i].op = "update_market_baseline"
        /\ calls[i].arg.condition_id = m
        /\ \A j \in DOMAIN calls : j > i => calls[j].op # "record_trade"

\* C14: update_market_baseline(m) replaces the row of m: the statistics it
\* stores are those of the trades recorded for m at the call, whatever the
\* row held before, so a second refresh with no trade recorded in between
\* stores the same statistics; the rows of every other market, the wallets
\* table, the trades table and the alert ledger stay as they were.
C14_RefreshReplacesRow ==
    [][\A m \in Markets :
          (Len(calls') = Len(calls) + 1 /\ Refreshed(m)') =>
              /\ UNCHANGED <<trades, wallets, alerts>>
              /\ \A c \in Markets \ {m} :
                     /\ c \in DOMAIN market_baselines' <=> c \in DOMAIN market_baselines
                     /\ c \in DOMAIN market_baselines =>
                            market_baselines'[c] = market_baselines[c]
              /\ MarketHashes(m) # {} =>
                     /\ m \in DOMAIN market_baselines'
                     /\ Statistics(market_baselines'[m]) =
                            Statistics(baseline_row(SortedSizes(trades, MarketHashes(m))))
              /\ (m \in DOMAIN market_baselines /\ NoTradeSinceRefresh(m)) =>
                     Statistics(market_baselines'[m]) = Statistics(market_baselines[m])
      ]_vars

\* a market was refreshed, received one more trade and was refreshed again
C14_Witness ==
    /\ Len(calls) = 3
    /\ calls[1].op = "update_market_baseline"
    /\ calls[1].arg.condition_id = "m1"
    /\ calls[2].op = "record_trade"
    /\ calls[2].arg.market_id = "m1"
    /\ Refreshed("m1")
    /\ Cardinality(MarketHashes("m1")) = 12
    /\ market_baselines["m1"].trade_count = 12
    /\ MarketHashes("m2") # {}

\* C15: a market_baselines row exists for m only after a refresh of m that
\* found at least one recorded trade of m, and every stored row has
\* trade_count >= 1; update_market_baseline on a market without recorded
\* trades writes nothing, so get_market_baseline of a market never refreshed
\* is absent.
C15_BaselineOnlyFromTrades ==
    /\ [](\A m \in Markets :
              /\ m \in DOMAIN market_baselines =>
                    /\ market_baselines[m].trade_count >= 1
                    /\ MarketHashes(m) # {}
                    /\ \E i \in DOMAIN calls :
                           /\ calls[i].op = "update_market_baseline"
                           /\ calls[i].arg.condition_id = m
              /\ (~ \E i \in DOMAIN calls :
                        /\ calls[i].op = "update_market_baseline"
                        /\ calls[i].arg.condition_id = m)
                    => get_market_baseline(m) = None)
    /\ [][\A m \in Markets :
             /\ (m \notin DOMAIN market_baselines /\ m \in DOMAIN market_baselines')
                    => Refreshed(m)' /\ MarketHashes(m) # {}
             /\ (Len(calls') = Len(calls) + 1 /\ Refreshed(m)' /\ MarketHashes(m) = {})
                    => UNCHANGED market_baselines
         ]_vars

\* a market without recorded trades was refreshed and has no row, next to a
\* market that has one
C15_Witness ==
    /\ Refreshed("m2")
    /\ MarketHashes("m2") = {}
    /\ get_market_baseline("m2") = None
    /\ "m1" \in DOMAIN market_baselines

\* C16: every wallets row has total_trades >= 1 and avg_trade_size =
\* total_volume / total_trades; a row is created with total_trades = 1 and
\* avg_trade_size = total_volume = the size of the trade.
C16_AverageFollowsTotals ==
    /\ [](\A a \in DOMAIN wallets :
              /\ wallets[a].total_trades >= 1
              /\ wallets[a].avg_trade_size.den > 0
              /\ wallets[a].avg_trade_size.num * wallets[a].total_trades
                     = wallets[a].total_volume * wallets[a].avg_trade_size.den)
    /\ [][\A a \in DOMAIN wallets' \ DOMAIN wallets :
             LET size == ArgOf(calls', "update_wallet_stats").size IN
             /\ wallets'[a].total_trades = 1
             /\ wallets'[a].total_volume = size
             /\ wallets'[a].avg_trade_size.num = size * wallets'[a].avg_trade_size.den
         ]_vars

\* a wallet row was updated with a second trade of another size
C16_Witness ==
    \E a \in DOMAIN wallets :
        /\ wallets[a].total_trades = 2
        /\ wallets[a].total_volume = 10400
        /\ wallets[a].avg_trade_size = Rat(10400, 2)
        /\ Called(calls, "update_wallet_stats")

\* C17: a wallets row, once created, is never deleted and keeps its
\* first_seen; total_trades and total_volume never decrease; each
\* update_wallet_stats adds exactly one to total_trades of the trade's wallet
\* and sets last_seen to the time of processing, not to the trade's own
\* timestamp; nothing else changes the table.
C17_WalletRowMonotone ==
    [][/\ \A a \in DOMAIN wallets :
              /\ a \in DOMAIN wallets'
              /\ wallets'[a].first_seen = wallets[a].first_seen
              /\ wallets'[a].total_trades >= wallets[a].total_trades
              /\ wallets'[a].total_volume >= wallets[a].total_volume
       /\ wallets' # wallets => Called(calls', "update_wallet_stats")
       /\ Called(calls', "update_wallet_stats") =>
              LET t == ArgOf(calls', "update_wallet_stats")
                  a == Lower(t.wallet_address)
              IN  /\ a \in DOMAIN wallets'
                  /\ wallets'[a].total_trades =
                         IF a \in DOMAIN wallets THEN wallets[a].total_trades + 1 ELSE 1
                  /\ wallets'[a].last_seen = isoformat(LocalNow)
                  /\ wallets'[a].last_seen # isoformat(t.timestamp)
                  /\ \A b \in DOMAIN wallets \ {a} : wallets'[b] = wallets[b]
      ]_vars

\* a wallet was updated three hours after its row was created
C17_Witness ==
    \E a \in DOMAIN wallets :
        /\ wallets[a].total_trades = 2
        /\ fromisoformat(wallets[a].last_seen)
               = fromisoformat(wallets[a].first_seen) + 3
        /\ wallets[a].last_seen = isoformat(LocalNow)
        /\ Called(calls, "update_wallet_stats")

\* addresses that differ in letter case only read the same wallets row and
\* get the same answer from Database.should_alert, and every stored address
\* is lowercase
SameKeyForCaseVariants ==
    /\ DOMAIN wallets \subseteq NormAddresses
    /\ \A h \in DOMAIN trades : trades[h].wallet_address \in NormAddresses
    /\ \A i \in DOMAIN alerts : alerts[i].wallet_address \in NormAddresses
    /\ \A w1, w2 \in Addresses :
           Lower(w1) = Lower(w2) =>
               /\ get_wallet_stats(w1) = get_wallet_stats(w2)
               /\ \A m \in Markets :
                      db_should_alert(w1, m, config.cooldown_hours)
                          <=> db_should_alert(w2, m, config.cooldown_hours)

\* C18: wallet identity is case-insensitive in every lookup and write:
\* case variants of an address share one wallets row and one cooldown key,
\* so an alert recorded for (W, M) suppresses alerts for every case variant
\* of W on M until cooldown_hours have passed.
C18_CaseInsensitiveIdentity ==
    /\ SameKeyForCaseVariants
    /\ \A i \in DOMAIN alerts : \A w \in Addresses :
           (Lower(w) = alerts[i].wallet_address
              /\ now - CreatedAt(alerts[i]) < config.cooldown_hours)
                 => ~db_should_alert(w, alerts[i].market_id, config.cooldown_hours)

\* the scenario: default configuration, a wallet without prior trades, a
\* trade of size 50000
UnknownWalletTrade50000 ==
    /\ candidate # None
    /\ config = DefaultConfig
    /\ probe.wallet_stats = None
    /\ probe.trade.size = 50000

\* C19 as stated: in the scenario, without a baseline exactly fresh wallet
\* and large size fire (score 4, should_alert false); with any baseline
\* whose p95 is 40000 market anomaly fires as well and the score is 6
\* (should_alert true).
C19_ScenarioAsStated ==
    UnknownWalletTrade50000 =>
        /\ probe.market_baseline = None =>
              /\ candidate.triggers = <<"Fresh wallet", "Large size">>
              /\ candidate.score = 4
              /\ ~should_alert(candidate)
        /\ (probe.market_baseline # None
              /\ probe.market_baseline.p95_trade_size = 40000) =>
              /\ Fires("Market anomaly")
              /\ candidate.score = 6
              /\ should_alert(candidate)

\* C19 amended: in the scenario, without a baseline exactly fresh wallet and
\* large size fire (score 4, should_alert false); with a baseline whose p95
\* is 40000 market anomaly fires as well and should_alert is true; the score
\* is 6 when the baseline's total_volume exceeds 500000 and 9 otherwise,
\* because high concentration then fires too.
C19_ScenarioWithConcentration ==
    UnknownWalletTrade50000 =>
        /\ probe.market_baseline = None =>
              /\ candidate.triggers = <<"Fresh wallet", "Large size">>
              /\ candidate.score = 4
              /\ ~should_alert(candidate)
        /\ (probe.market_baseline # None
              /\ probe.market_baseline.p95_trade_size = 40000) =>
              /\ Fires("Market anomaly")
              /\ should_alert(candidate)
              /\ probe.market_baseline.total_volume > 500000 =>
                    /\ candidate.score = 6
                    /\ candidate.triggers =
                           <<"Fresh wallet", "Large size", "Market anomaly">>
              /\ probe.market_baseline.total_volume <= 500000 =>
                    /\ candidate.score = 9
                    /\ candidate.triggers =
                           <<"Fresh wallet", "Large size", "Market anomaly",
                             "High concentration">>

\* the scenario was scored against a one-trade baseline with p95 = 40000
C19_Witness ==
    /\ UnknownWalletTrade50000
    /\ probe.market_baseline # None
    /\ probe.market_baseline.p95_trade_size = 40000
    /\ probe.market_baseline.total_volume = 40000
    /\ candidate.score = 9

\* the latest process_trade called send_alert and the delivery failed
DeliveryFailed(log) == Called(log, "send_alert") /\ ~Called(log, "record_alert")

\* C20: when send_alert fails, process_trade goes on to record the trade and
\* to update the wallet statistics as it does after a delivery, leaves
\* alerts_sent and the alert ledger as they were, and the next trade of the
\* batch can be processed.
C20_FailedDeliveryStillRecords ==
    /\ [][DeliveryFailed(calls') =>
             /\ Called(calls', "record_trade")
             /\ Called(calls', "update_wallet_stats")
             /\ IndexOf(calls', "send_alert") < IndexOf(calls', "record_trade")
             /\ IndexOf(calls', "record_trade") < IndexOf(calls', "update_wallet_stats")
             /\ LET t == ArgOf(calls', "record_trade")
                    a == Lower(t.wallet_address)
                IN  /\ t.transaction_hash \notin DOMAIN trades
                    /\ t.transaction_hash \in DOMAIN trades'
                    /\ trades'[t.transaction_hash].size = t.size
                    /\ trades'[t.transaction_hash].wallet_address = a
                    /\ a \in DOMAIN wallets'
                    /\ wallets'[a].total_trades =
                           IF a \in DOMAIN wallets THEN wallets[a].total_trades + 1 ELSE 1
                    /\ wallets'[a].total_volume =
                           IF a \in DOMAIN wallets
                           THEN wallets[a].total_volume + t.size ELSE t.size
             /\ alerts_sent' = alerts_sent
             /\ alerts' = alerts
             /\ trades_processed' = trades_processed + 1
         ]_vars
    /\ [](DeliveryFailed(calls) => ENABLED ProcessTrade)

\* a delivery failed for the second trade of a wallet and nothing was counted
C20_Witness ==
    /\ DeliveryFailed(calls)
    /\ Called(calls, "update_wallet_stats")
    /\ wallets[Lower(ArgOf(calls, "update_wallet_stats").wallet_address)].total_trades = 2
    /\ alerts_sent = 0
    /\ alerts = <<>>
    /\ trades_processed = 2

\* the latest store operation was record_trade
Recorded(log) == log # <<>> /\ log[Len(log)].op = "record_trade"

\* C26: record_trade returns True when the transaction identifier was new
\* and a row was inserted, and returns False, leaving the stored row as it
\* was, when the identifier already exists, whatever was written earlier on
\* the connection.
C26_RecordTradeReportsInsert ==
    [][(Len(calls') = Len(calls) + 1 /\ Recorded(calls')) =>
          LET t == calls'[Len(calls')].arg IN
          /\ returned' = (t.transaction_hash \notin DOMAIN trades)
          /\ t.transaction_hash \in DOMAIN trades'
          /\ t.transaction_hash \in DOMAIN trades => trades' = trades
      ]_vars

\* the stored state of tracker, baselines and ledger
Stored == <<trades, wallets, market_baselines, alerts>>

\* C24 as stated: two invocations of analyze with the same trade, wallet
\* stats and baseline return the same score and the same triggers, whenever
\* they are made and whatever the tracker and the ledger hold, and an
\* invocation changes no stored state.
C24_PureInThreeInputs ==
    [][/\ (candidate # None /\ candidate' # None) =>
              /\ candidate'.score = candidate.score
              /\ candidate'.triggers = candidate.triggers
       /\ candidate' # candidate => Stored' = Stored
      ]_vars

\* the age in whole days analyze reads for the probed wallet
ProbeDaysOld == days(LocalNow - probe.wallet_stats.first_seen)

\* C24 amended: analyze is a function of the trade, the wallet stats, the
\* baseline and the current time: two invocations with the same three
\* inputs return the same score and triggers whenever the wallet stats are
\* absent, or total_trades <= fresh_wallet_max_trades, or the wallet's age
\* in whole days is the same at both invocations (so always when invoked at
\* the same time), whatever the tracker and the ledger hold; an invocation
\* changes no stored state.
C24_PureAtEqualAge ==
    [][/\ (candidate # None /\ candidate' # None
             /\ (\/ probe.wallet_stats = None
                 \/ probe.wallet_stats.total_trades <= config.fresh_wallet_max_trades
                 \/ ProbeDaysOld' = ProbeDaysOld)) =>
              /\ candidate'.score = candidate.score
              /\ candidate'.triggers = candidate.triggers
       /\ candidate' # candidate => Stored' = Stored
      ]_vars

\* a wallet of six trades was scored again an hour later, after the store
\* had changed, and is fresh as before
C24_Witness ==
    /\ candidate # None
    /\ \E t \in ProbeNow : now = t + 1
    /\ wallets # <<>>
    /\ alerts # <<>>
    /\ probe.wallet_stats # None
    /\ probe.wallet_stats.total_trades = 6
    /\ ProbeDaysOld = 30
    /\ Fires("Fresh wallet")

\* the number of update_market_baseline calls in a call log
RECURSIVE RefreshCalls(_)
RefreshCalls(log) ==
    IF log = <<>> THEN 0
    ELSE (IF Head(log).op = "update_market_baseline" THEN 1 ELSE 0)
             + RefreshCalls(Tail(log))

\* what holds of refreshes whatever is counted: at most one per trade, for
\* the trade's market, and the baselines change in no other way
RefreshOncePerTrade ==
    /\ RefreshCalls(calls') <= 1
    /\ Called(calls', "update_market_baseline") =>
           /\ Called(calls', "record_trade")
           /\ ArgOf(calls', "update_market_baseline").condition_id
                  = ArgOf(calls', "record_trade").market_id
           /\ \A c \in DOMAIN market_baselines :
                  c # ArgOf(calls', "record_trade").market_id =>
                      /\ c \in DOMAIN market_baselines'
                      /\ market_baselines'[c] = market_baselines[c]
    /\ ~Called(calls', "update_market_baseline") =>
           market_baselines' = market_baselines

\* C25 as stated: the baseline is refreshed on every 100th non-duplicate
\* trade processed (here: every 100th trade recorded) and on no other
\* trade, once, for that trade's market only; any other trade leaves the
\* stored baselines unchanged.
C25_RefreshEveryHundredthTrade ==
    [][/\ RefreshOncePerTrade
       /\ (calls' # <<>> /\ calls'[1].arg.transaction_hash \notin DOMAIN trades) =>
              (Called(calls', "update_market_baseline")
                   <=> Cardinality(DOMAIN trades') % 100 = 0)
      ]_vars

\* the trades scored since the bot started: the recorded trades that were
\* not below min_size_usd
ScoredSoFar ==
    Cardinality({h \in DOMAIN trades : trades[h].size >= config.min_size_usd})

\* C25 amended: the baseline is refreshed on every 100th trade that is
\* scored (non-duplicate and of size >= min_size_usd) since the bot
\* started, and on no other trade, once, for that trade's market only;
\* trades below min_size_usd are recorded without being counted; any other
\* trade leaves the stored baselines unchanged.
C25_RefreshEveryHundredthScored ==
    [][/\ RefreshOncePerTrade
       /\ calls' # <<>> =>
              (Called(calls', "update_market_baseline")
                   <=> /\ calls'[1].arg.transaction_hash \notin DOMAIN trades
                       /\ ArgOf(calls', "record_trade").size >= config.min_size_usd
                       /\ (ScoredSoFar + 1) % 100 = 0)
      ]_vars

\* the 100th scored trade, the 101st recorded, has refreshed its market
C25_Witness ==
    /\ Called(calls, "update_market_baseline")
    /\ trades_processed = 100
    /\ Cardinality(DOMAIN trades) = 101
    /\ "m2" \in DOMAIN market_baselines
    /\ market_baselines["m2"].trade_count = 2

\* C28: each trade is scored against the wallet statistics as they are
\* before the trade's own record_trade and update_wallet_stats: the k-th
\* trade of a wallet is scored with total_trades = k-1, the first with the
\* statistics absent, so that "Fresh wallet" fires and "Behavior shift"
\* does not.
C28_ScoredBeforeOwnUpdate ==
    [][Called(calls', "should_alert") =>
         LET t == ArgOf(calls', "analyze")
             v == ArgOf(calls', "should_alert")
             a == Lower(t.wallet_address)
             k == Cardinality(RecordedOf(a)) + 1
             snapshot == get_wallet_stats(t.wallet_address)
             scored == analyze(t, snapshot, get_market_baseline(t.market_id))
         IN  /\ t.transaction_hash \notin DOMAIN trades
             /\ v.score = scored.score
             /\ v.triggers = scored.triggers
             /\ (k = 1) <=> (snapshot = None)
             /\ k = 1 => /\ "Fresh wallet" \in Range(v.triggers)
                         /\ "Behavior shift" \notin Range(v.triggers)
             /\ k > 1 => snapshot.total_trades = k - 1
             /\ IndexOf(calls', "should_alert") < IndexOf(calls', "record_trade")
             /\ IndexOf(calls', "should_alert") < IndexOf(calls', "update_wallet_stats")
             /\ t.transaction_hash \in DOMAIN trades'
             /\ wallets'[a].total_trades = k
      ]_vars

\* a wallet's second trade, five times its first, has been scored against
\* the first alone
C28_Witness ==
    /\ Called(calls, "should_alert")
    /\ "Behavior shift" \in Range(ArgOf(calls, "should_alert").triggers)
    /\ LET t == ArgOf(calls, "analyze") IN
       /\ wallets[Lower(t.wallet_address)].total_trades = 2
       /\ wallets[Lower(t.wallet_address)].total_volume = 400 + t.size
       /\ t.size = 2000

\* send_alert has returned False in the call log
SendFailed(log) ==
    /\ Called(log, "send_alert.return")
    /\ ~ArgOf(log, "send_alert.return").success

\* send_alert has returned True in the call log
SendSucceeded(log) ==
    /\ Called(log, "send_alert.return")
    /\ ArgOf(log, "send_alert.return").success

\* the cooldown check lets the pair through
PairOpen(w, m) == db_should_alert(w, m, config.cooldown_hours)

\* C29: an alert row is appended iff send_alert reported success for the
\* trade, and alerts_sent grows by one with each appended row; a trade that
\* is suppressed by cooldown, below the threshold or whose delivery failed
\* appends nothing, so after a failed delivery the (wallet, market) pair is
\* not in cooldown and the next qualifying trade of the pair is sent again.
C29_RecordIffDelivered ==
    [][/\ Len(alerts') \in {Len(alerts), Len(alerts) + 1}
       /\ alerts_sent' - alerts_sent = Len(alerts') - Len(alerts)
       /\ (Len(alerts') = Len(alerts) + 1) <=> SendSucceeded(calls')
       /\ Len(alerts') = Len(alerts) + 1 =>
              LET t == ArgOf(calls', "analyze") IN
              /\ SubSeq(alerts', 1, Len(alerts)) = alerts
              /\ alerts'[Len(alerts')].wallet_address = Lower(t.wallet_address)
              /\ alerts'[Len(alerts')].market_id = t.market_id
       /\ SendFailed(calls') =>
              LET t == ArgOf(calls', "analyze") IN
              /\ alerts' = alerts
              /\ \E w \in Addresses, m \in Markets :
                     /\ w = t.wallet_address
                     /\ m = t.market_id
                     /\ PairOpen(w, m)'
       /\ (SendFailed(calls) /\ Called(calls', "should_alert")) =>
              LET t == ArgOf(calls, "analyze")
                  u == ArgOf(calls', "analyze")
              IN  (/\ Lower(u.wallet_address) = Lower(t.wallet_address)
                   /\ u.market_id = t.market_id
                   /\ ArgOf(calls', "should_alert").score >= config.alert_threshold)
                      => Called(calls', "send_alert")
      ]_vars

\* the first qualifying trade of a pair was not delivered, the second of
\* the same pair was, and only the second has an alert row
C29_Witness ==
    /\ SendSucceeded(calls)
    /\ Len(alerts) = 1
    /\ alerts_sent = 1
    /\ trades_processed = 2
    /\ LET u == ArgOf(calls, "analyze") IN
       /\ DOMAIN delivered = {u.transaction_hash}
       /\ \E h \in DOMAIN trades :
             /\ h # u.transaction_hash
             /\ trades[h].wallet_address = Lower(u.wallet_address)
             /\ trades[h].market_id = u.market_id
             /\ trades[h].size >= config.min_size_usd
             /\ config.alert_threshold = 4

\* a store call of the trade has raised
StorageError(log) == Called(log, "storage_error")

\* C21: a storage failure in any store call of process_trade leaves
\* process_trade, ends the polling cycle without the remaining trades, is
\* caught by the main loop, and the trade is retried in a later cycle (it
\* is not marked as processed).
C21_StorageFailureEndsCycle ==
    [][StorageError(calls') =>
         /\ outcome' = "error"
         /\ cursor' = 0
         /\ (ENABLED Fetch)'
         /\ \E h \in CycleHashes :
               /\ h = ArgOf(calls', "storage_error").transaction_hash
               /\ h \notin DOMAIN trades => h \notin DOMAIN trades'
      ]_vars

\* C27: with storage failures at any single write of process_trade and the
\* trade delivered again later, every recorded trade is counted once in its
\* wallet's total_trades and total_volume, no unrecorded trade is counted,
\* and no trade has more than one alert delivered.
C27_ConsistentUnderFailures ==
    /\ \A a \in NormAddresses :
          IF a \in DOMAIN wallets
          THEN /\ wallets[a].total_trades = Cardinality(RecordedOf(a))
               /\ wallets[a].total_volume = VolumeOf(RecordedOf(a))
          ELSE RecordedOf(a) = {}
    /\ \A h \in DOMAIN delivered : delivered[h] <= 1

\* C30: while the store works, every trade of the fetched batch is recorded
\* when poll_cycle completes, whatever became of it (small, scored, alerted,
\* suppressed, delivery failed); a started cycle does complete; and a
\* recorded transaction hash stays recorded.
C30_BatchRecorded ==
    /\ [](outcome = "complete" =>
             \A i \in DOMAIN batch : is_trade_processed(batch[i].transaction_hash))
    /\ (outcome = "running") ~> (outcome = "complete")
    /\ \A h \in CycleHashes :
          [](is_trade_processed(h) => [](is_trade_processed(h)))

\* a cycle has completed over a batch of a scored trade that was not
\* delivered and a small one
C30_Witness ==
    /\ outcome = "complete"
    /\ Len(batch) = 2
    /\ batch[1].transaction_hash # batch[2].transaction_hash
    /\ \A i \in DOMAIN batch : is_trade_processed(batch[i].transaction_hash)
    /\ trades_processed % RefreshEvery = 1
    /\ alerts_sent = 0
    /\ config.alert_threshold = 4

\* both instances have left process_trade
RaceOver == \A i \in RaceTasks : tasks[i].pc \in {"done", "raised"}

\* C22: when two instances process distinct qualifying trades of one
\* (wallet, market) pair concurrently, at most one of them sends an alert
\* and appends an alert row within the cooldown window.
C22_CooldownCheckAtomic ==
    /\ Len(alerts) <= 1
    /\ \A i \in RaceTasks, j \in RaceTasks :
          (i # j /\ tasks[i].alerts_sent > 0) => tasks[j].alerts_sent = 0

\* C23: when two update_wallet_stats calls for distinct trades of one wallet
\* interleave, neither fails and no update is lost: the wallet's total_trades
\* and total_volume count both trades, also when both are the wallet's first.
C23_WalletUpdateAtomic ==
    RaceOver =>
       /\ \A i \in RaceTasks : tasks[i].pc = "done"
       /\ \A a \in NormAddresses :
             a \in DOMAIN wallets =>
                /\ wallets[a].total_trades = Cardinality(RecordedOf(a))
                /\ wallets[a].total_volume = VolumeOf(RecordedOf(a))

====
